---- MODULE Spec2Model ----
(***************************************************************************)
(* A model of codex-proxy: the request translator (translator.ts), the     *)
(* credential manager (oauth.ts), the chat request handler and the stream  *)
(* relay (proxy.ts).                                                       *)
(*                                                                         *)
(* Five specifications share the variables of the module:                 *)
(*   SpecTranslate  the pure translator functions applied to drawn inputs  *)
(*   SpecCred       concurrent calls of getValidAccessToken on TOKEN_FILE  *)
(*   SpecHandler    one chat request handled by handleAnthropicRequest,    *)
(*                  with its call of getValidAccessToken                   *)
(*   SpecRelay      forwardToCodex relaying one upstream response          *)
(*   SpecLogin      performOAuthLogin with the callbacks it is sent         *)
(* A specification leaves the variables of the other parts untouched.      *)
(***************************************************************************)
EXTENDS Integers, Sequences, FiniteSets, TLC

VARIABLES
    \* translator
    trReq,      \* the AnthropicRequest handed to translateAnthropicToOpenAI
    trOut,      \* its result, NoResult before the call
    \* credential manager
    tokenFile,  \* content of TOKEN_FILE
    now,        \* Date.now()
    crashed,    \* the process was ended by an uncaught exception
    gv,         \* per call of getValidAccessToken: its position and locals
    \* chat handler
    hd,         \* handleAnthropicRequest for one request
    \* stream relay
    rl,         \* forwardToCodex: upstream stream, line buffer, caller response
    \* login
    lg,         \* performOAuthLogin: the flow, and its callback handlers
    \* command line
    st          \* the start and run commands: position, listeners, exit code

vars == <<trReq, trOut, tokenFile, now, crashed, gv, hd, rl, lg, st>>

trVars == <<trReq, trOut>>
credVars == <<tokenFile, now, crashed, gv>>

(***************************************************************************)
(* JavaScript values                                                       *)
(***************************************************************************)
Undefined == [t |-> "undefined"]
Str(s) == [t |-> "string", s |-> s]
\* a function or object inherited from Object.prototype
Builtin(n) == [t |-> "object", n |-> n]

\* ToBoolean on the values above
Truthy(v) ==
    CASE v.t = "undefined" -> FALSE
      [] v.t = "string" -> v.s # ""
      [] v.t = "number" -> v.n # 0
      [] v.t = "null" -> FALSE
      [] OTHER -> TRUE

\* a || b
JsOr(a, b) == IF Truthy(a) THEN a ELSE b

(***************************************************************************)
(* translator.ts: model mapping                                            *)
(***************************************************************************)
MODEL_MAP ==
    ("claude-sonnet-4-5-20250929" :> "gpt-5.2-codex") @@
    ("claude-opus-4-5-20250929" :> "gpt-5.2-codex") @@
    ("claude-haiku-4-5-20250929" :> "gpt-5.1-codex-mini") @@
    ("claude-3-5-sonnet-20241022" :> "gpt-5.2-codex") @@
    ("claude-3-opus-20240229" :> "gpt-5.2-codex") @@
    ("claude-3-haiku-20240307" :> "gpt-5.1-codex-mini") @@
    ("default" :> "gpt-5.2-codex")

\* MODEL_MAP is an object literal: a key it does not own is looked up on
\* Object.prototype
ObjectPrototypeProps ==
    {"constructor", "toString", "valueOf", "hasOwnProperty", "__proto__"}

\* MODEL_MAP[key]
ModelMapGet(key) ==
    IF key \in DOMAIN MODEL_MAP THEN Str(MODEL_MAP[key])
    ELSE IF key \in ObjectPrototypeProps THEN Builtin(key)
    ELSE Undefined

mapModel(anthropicModel) ==
    JsOr(ModelMapGet(anthropicModel), ModelMapGet("default"))

(***************************************************************************)
(* translator.ts: request translation                                      *)
(***************************************************************************)
CODEX_SYSTEM_INSTRUCTIONS == "You are a coding agent"

\* faulty variant: no block is filtered out
FilterText_All(blocks) == blocks

\* msg.content.filter((block) => block.type === "text")
FilterText(blocks) == SelectSeq(blocks, LAMBDA b : b.type = "text")

\* .map((block) => block.text).join(""): join writes undefined as ""
RECURSIVE JoinText(_)
JoinText(blocks) ==
    IF blocks = <<>> THEN ""
    ELSE (IF Head(blocks).text.t = "string" THEN Head(blocks).text.s ELSE "")
         \o JoinText(Tail(blocks))

\* one source message to one target message
ConvertMessage(msg) ==
    [role |-> IF msg.role = "assistant" THEN "assistant" ELSE "user",
     content |-> IF msg.content.t = "string" THEN msg.content.s
                 ELSE JoinText(FilterText(msg.content.b))]

\* faulty variant: the system message is appended after the converted messages
TargetMessages_SystemLast(anthropicReq) ==
    [i \in 1..Len(anthropicReq.messages) |->
        ConvertMessage(anthropicReq.messages[i])]
    \o (IF Truthy(anthropicReq.system)
        THEN <<[role |-> "system", content |-> anthropicReq.system.s]>>
        ELSE <<>>)

\* the messages array translateAnthropicToOpenAI builds
TargetMessages(anthropicReq) ==
    (IF Truthy(anthropicReq.system)
     THEN <<[role |-> "system", content |-> anthropicReq.system.s]>>
     ELSE <<>>)
    \o [i \in 1..Len(anthropicReq.messages) |->
           ConvertMessage(anthropicReq.messages[i])]

translateAnthropicToOpenAI(anthropicReq, codexInstructions) ==
    [model |-> mapModel(anthropicReq.model),
     messages |-> TargetMessages(anthropicReq),
     stream |-> IF anthropicReq.stream = "undefined" THEN TRUE
                ELSE anthropicReq.stream = "true",
     store |-> FALSE,
     instructions |-> IF codexInstructions # "" THEN Str(codexInstructions)
                      ELSE Undefined]

(***************************************************************************)
(* Inputs of the translator                                                *)
(***************************************************************************)
MaxMessages == 2

ModelIds ==
    DOMAIN MODEL_MAP \cup ObjectPrototypeProps \cup {"claude-unknown", ""}

TargetIds == {MODEL_MAP[k] : k \in DOMAIN MODEL_MAP}

Roles == {"user", "assistant"}

TextBlock(s) == [type |-> "text", text |-> Str(s)]
OtherBlock(ty) == [type |-> ty, text |-> Undefined]

Contents ==
    {[t |-> "string", s |-> "Y"],
     [t |-> "blocks", b |-> <<TextBlock("a"), OtherBlock("image"), TextBlock("b")>>],
     [t |-> "blocks", b |-> <<OtherBlock("tool_use"), OtherBlock("tool_result")>>],
     [t |-> "blocks", b |-> <<[type |-> "tool_result", text |-> Str("z")], TextBlock("a")>>],
     [t |-> "blocks", b |-> <<>>]}

SourceMessages == [role : Roles, content : Contents]

\* the sequences over S of length at most n
SeqsUpTo(S, n) == UNION {[1..k -> S] : k \in 0..n}

Systems == {Undefined, Str(""), Str("X")}

SourceRequests ==
    [model : ModelIds,
     system : Systems,
     messages : SeqsUpTo(SourceMessages, MaxMessages),
     stream : {"undefined", "true", "false"}]

NoResult == [t |-> "none"]

(***************************************************************************)
(* oauth.ts: the credential file                                           *)
(***************************************************************************)
Null == [t |-> "null"]
Num(n) == [t |-> "number", n |-> n]
\* an opaque token string; tokens of different exchanges differ
Tok(n) == [t |-> "token", n |-> n]

\* the states of TOKEN_FILE other than a JSON text
NoFile == [t |-> "nofile"]
EmptyFile == [t |-> "empty"]        \* opened for writing, nothing written yet
GarbledFile == [t |-> "garbled"]    \* a short write over a longer one

TokenKeys == {"access_token", "refresh_token", "expires_at"}

\* JSON.stringify(tokens, null, 2): a field whose value is undefined is left out
Stringify(tokenData) ==
    [t |-> "json",
     obj |-> [k \in {f \in TokenKeys : tokenData[f] # Undefined} |-> tokenData[k]]]

\* obj[key] on a parsed object
Get(obj, key) == IF key \in DOMAIN obj THEN obj[key] ELSE Undefined

\* loadTokens: readFile and JSON.parse, null when either throws
loadTokens(file) == IF file.t = "json" THEN file.obj ELSE Null

\* the size of the written text, in fields (tokens are taken to be equally
\* long); a garbled file is as long as the longest text
FileSize(file) ==
    CASE file.t = "json" -> Cardinality(DOMAIN file.obj)
      [] file.t = "garbled" -> Cardinality(TokenKeys)
      [] OTHER -> 0

MinuteMs == 60 * 1000
\* 5 * 60 * 1000
REFRESH_MARGIN == 5 * MinuteMs
DEFAULT_EXPIRES_IN == 3600

\* faulty variant: the margin is applied with a strict comparison
NeedsRefresh_Strict(tokens, t) ==
    LET e == Get(tokens, "expires_at")
    IN  e.t = "number" /\ t > e.n - REFRESH_MARGIN

\* Date.now() >= tokens.expires_at - 5 * 60 * 1000 (false on a missing expires_at)
NeedsRefresh(tokens, t) ==
    LET e == Get(tokens, "expires_at")
    IN  e.t = "number" /\ t >= e.n - REFRESH_MARGIN

\* the TokenData built from a token response at time t
NewTokens(refreshed, t) ==
    [access_token |-> refreshed.access_token,
     refresh_token |-> refreshed.refresh_token,
     expires_at |->
        Num(t + (IF refreshed.expires_in = Undefined THEN DEFAULT_EXPIRES_IN
                 ELSE refreshed.expires_in.n) * 1000)]

(***************************************************************************)
(* oauth.ts: getValidAccessToken, one call per element of Calls            *)
(***************************************************************************)
NumCalls == 2
MaxMinutes == 1

Calls == 1..NumCalls

\* the answers of the token endpoint to the refresh of call c that parse:
\* expires_in is optional, and an endpoint that does not rotate refresh tokens
\* sends none
RefreshBodies(c) ==
    {[access_token |-> Tok(c), refresh_token |-> Tok(c), expires_in |-> Undefined],
     [access_token |-> Tok(c), refresh_token |-> Tok(c), expires_in |-> Num(60)],
     [access_token |-> Tok(c), refresh_token |-> Undefined, expires_in |-> Undefined]}

\* a call: its position, the locals that are live there (sent: the refresh
\* token of the request under way; newTokens: the credential being saved),
\* whether the file it opened has been unlinked (orphan), and its result
IdleCall ==
    [pc |-> "idle", sent |-> Undefined, newTokens |-> Null,
     orphan |-> FALSE, result |-> NoResult]

Returned(result) == [IdleCall EXCEPT !.pc = "done", !.result = result]

\* the credential files an earlier login or refresh has left: expiring in 4, 5
\* and 6 minutes and in an hour
InitialFiles ==
    {NoFile} \cup
    {Stringify([access_token |-> Tok(0), refresh_token |-> Tok(0),
                expires_at |-> Num(m * MinuteMs)]) : m \in {4, 5, 6, 60}}

\* the call begins: loadTokens starts reading TOKEN_FILE
GvStart(c) ==
    /\ ~crashed
    /\ gv[c].pc = "idle"
    /\ gv' = [gv EXCEPT ![c].pc = "load"]
    /\ UNCHANGED <<tokenFile, now, crashed, trVars, hd, rl, lg, st>>

\* getValidAccessToken from the return of loadTokens at time t on: return
\* null, return the stored token, or send the refresh request
AfterLoad(tokens, t) ==
    IF tokens = Null THEN Returned(Null)
    ELSE IF NeedsRefresh(tokens, t)
    THEN [IdleCall EXCEPT !.pc = "refresh", !.sent = Get(tokens, "refresh_token")]
    ELSE Returned(Get(tokens, "access_token"))

\* the read of TOKEN_FILE completes
GvLoad(c) ==
    /\ ~crashed
    /\ gv[c].pc = "load"
    /\ gv' = [gv EXCEPT ![c] = AfterLoad(loadTokens(tokenFile), now)]
    /\ UNCHANGED <<tokenFile, now, crashed, trVars, hd, rl, lg, st>>

\* the catch of getValidAccessToken: log and return null
RefreshRejected(call) == Returned(Null)

\* refreshAccessToken rejects (a status other than 200, or the request's
\* error event)
GvRefreshRejected(c) ==
    /\ ~crashed
    /\ gv[c].pc = "refresh"
    /\ gv' = [gv EXCEPT ![c] = RefreshRejected(gv[c])]
    /\ UNCHANGED <<tokenFile, now, crashed, trVars, hd, rl, lg, st>>

\* a 200 answer whose body does not parse: JSON.parse throws inside the
\* response's end listener, outside the promise and the try of the caller;
\* the exception is uncaught and ends the process
GvRefreshUnparsable(c) ==
    /\ ~crashed
    /\ gv[c].pc = "refresh"
    /\ crashed' = TRUE
    /\ UNCHANGED <<tokenFile, now, gv, trVars, hd, rl, lg, st>>

\* a 200 answer that parses: newTokens is built and saveTokens starts
GvRefreshed(c) ==
    /\ ~crashed
    /\ gv[c].pc = "refresh"
    /\ \E refreshed \in RefreshBodies(c) :
          gv' = [gv EXCEPT ![c] = [IdleCall EXCEPT !.pc = "save",
                                      !.newTokens = NewTokens(refreshed, now)]]
    /\ UNCHANGED <<tokenFile, now, crashed, trVars, hd, rl, lg, st>>

\* fs.writeFile opens TOKEN_FILE with flag w: created or truncated
GvSaveOpen(c) ==
    /\ ~crashed
    /\ gv[c].pc = "save"
    /\ tokenFile' = EmptyFile
    /\ gv' = [gv EXCEPT ![c].pc = "write"]
    /\ UNCHANGED <<now, crashed, trVars, hd, rl, lg, st>>

\* the file after fs.writeFile has written the text at offset 0 of the file
\* it opened
Written(file, call) ==
    LET text == Stringify(call.newTokens)
    IN  IF call.orphan THEN file
        ELSE IF FileSize(file) > FileSize(text) THEN GarbledFile
        ELSE text

GvSaveWrite(c) ==
    /\ ~crashed
    /\ gv[c].pc = "write"
    /\ tokenFile' = Written(tokenFile, gv[c])
    /\ gv' = [gv EXCEPT ![c].pc = "saved"]
    /\ UNCHANGED <<now, crashed, trVars, hd, rl, lg, st>>

\* saveTokens has resolved: return newTokens.access_token
GvReturn(c) ==
    /\ ~crashed
    /\ gv[c].pc = "saved"
    /\ gv' = [gv EXCEPT ![c] = Returned(gv[c].newTokens.access_token)]
    /\ UNCHANGED <<tokenFile, now, crashed, trVars, hd, rl, lg, st>>

\* clearTokens (the logout command, another process): unlink; a file open for
\* writing is written to after it has lost its name
Clear ==
    /\ tokenFile' = NoFile
    /\ gv' = [c \in Calls |->
                IF gv[c].pc = "write"
                THEN [gv[c] EXCEPT !.orphan = TRUE]
                ELSE gv[c]]
    /\ UNCHANGED <<now, crashed, trVars, hd, rl, lg, st>>

\* time passes
Tick ==
    /\ now < MaxMinutes * MinuteMs
    /\ now' = now + MinuteMs
    /\ UNCHANGED <<tokenFile, crashed, gv, trVars, hd, rl, lg, st>>

(***************************************************************************)
(* proxy.ts: handleAnthropicRequest                                        *)
(***************************************************************************)
\* s.startsWith(p)
StartsWith(s, p) == Len(s) >= Len(p) /\ SubSeq(s, 1, Len(p)) = p

\* s.slice(n)
Slice(s, n) == SubSeq(s, n + 1, Len(s))

\* req.headers.authorization || "": a missing header is the empty string
AuthHeaders ==
    {"", "Bearer ", "Bearer sk-ant-", "Bearer sk-ant-api03-k",
     "bearer sk-ant-api03-k", "sk-ant-api03-k", "Bearer sk-ant",
     "Bearer  sk-ant-api03-k", "Basic sk-ant-api03-k", "Bearer xsk-ant-k"}

\* the paths of requests classified as Anthropic API requests
ChatPaths == {"/v1/messages", "/v1/messages/count_tokens", "/api/hello", "/v1/complete"}

\* faulty variant: the key is taken from the header whatever its scheme
ApiKey_AnyScheme(authHeader) ==
    IF Len(authHeader) >= 7 THEN Slice(authHeader, 7) ELSE ""

\* authHeader.startsWith("Bearer ") ? authHeader.slice(7) : ""
ApiKey(authHeader) ==
    IF StartsWith(authHeader, "Bearer ") THEN Slice(authHeader, 7) ELSE ""

\* !(!apiKey || !apiKey.startsWith("sk-ant-"))
KeyAccepted(authHeader) ==
    ApiKey(authHeader) # "" /\ StartsWith(ApiKey(authHeader), "sk-ant-")

RequestText ==
    "{\"model\":\"claude-sonnet-4-5-20250929\",\"system\":\"X\",\"messages\":[{\"role\":\"user\",\"content\":\"Y\"}]}"
RequestTextNoStream ==
    "{\"model\":\"claude-unknown\",\"stream\":false,\"messages\":[{\"role\":\"user\",\"content\":\"Y\"}]}"

\* the request bodies: two requests, JSON that is no request, text that is no JSON
Bodies == {RequestText, RequestTextNoStream, "null", "{}", "", "{\"model\":"}

UserY == [role |-> "user", content |-> [t |-> "string", s |-> "Y"]]

\* JSON.parse(body) on the bodies above: ok is false where it throws a
\* SyntaxError; valid says whether the value has the messages array that
\* translateAnthropicToOpenAI iterates (it throws a TypeError without)
ParseBody(body) ==
    CASE body = RequestText ->
            [ok |-> TRUE, valid |-> TRUE,
             req |-> [model |-> "claude-sonnet-4-5-20250929", system |-> Str("X"),
                      messages |-> <<UserY>>, stream |-> "undefined"]]
      [] body = RequestTextNoStream ->
            [ok |-> TRUE, valid |-> TRUE,
             req |-> [model |-> "claude-unknown", system |-> Undefined,
                      messages |-> <<UserY>>, stream |-> "false"]]
      [] body \in {"null", "{}"} -> [ok |-> TRUE, valid |-> FALSE, req |-> Null]
      [] OTHER -> [ok |-> FALSE, valid |-> FALSE, req |-> Null]

NoResponse == [status |-> 0, type |-> "none", message |-> ""]
InvalidKeyResponse ==
    [status |-> 401, type |-> "authentication_error",
     message |-> "Invalid API key. Please set ANTHROPIC_API_KEY environment variable."]
NotAuthenticatedResponse ==
    [status |-> 401, type |-> "authentication_error",
     message |-> "Not authenticated with Codex. Run 'codex-proxy login' first."]
\* the message is that of the error caught (a SyntaxError or a TypeError)
InvalidRequestResponse ==
    [status |-> 400, type |-> "invalid_request_error", message |-> "err.message"]
MockResponse == [status |-> 200, type |-> "ok", message |-> ""]

IdleHandler ==
    [pc |-> "idle", auth |-> "", path |-> "", body |-> "", bodyRead |-> FALSE,
     res |-> NoResponse, conn |-> 0, sent |-> NoResult]

\* the call of getValidAccessToken that belongs to the handled request
HandlerCall == 1

\* the request arrives: the Authorization header is checked
HdReceive ==
    /\ ~crashed
    /\ hd.pc = "idle"
    /\ \E authHeader \in AuthHeaders, path \in ChatPaths :
          hd' = IF KeyAccepted(authHeader)
                THEN [hd EXCEPT !.pc = "body", !.auth = authHeader, !.path = path]
                ELSE [hd EXCEPT !.pc = "done", !.auth = authHeader, !.path = path,
                                !.res = InvalidKeyResponse]
    /\ UNCHANGED <<credVars, trVars, rl, lg, st>>

\* the request body has been read: getValidAccessToken is called
HdReadBody ==
    /\ ~crashed
    /\ hd.pc = "body"
    /\ gv[HandlerCall].pc = "idle"
    /\ \E body \in Bodies :
          hd' = [hd EXCEPT !.pc = "token", !.body = body, !.bodyRead = TRUE]
    /\ gv' = [gv EXCEPT ![HandlerCall].pc = "load"]
    /\ UNCHANGED <<tokenFile, now, crashed, trVars, rl, lg, st>>

\* faulty variant: the body is parsed before the token is looked at
AfterToken_ParseFirst(h, codexToken) ==
    IF StartsWith(h.path, "/v1/messages")
       /\ ~(ParseBody(h.body).ok /\ ParseBody(h.body).valid)
    THEN [h EXCEPT !.pc = "done", !.res = InvalidRequestResponse]
    ELSE IF codexToken \in {Null, Undefined}
    THEN [h EXCEPT !.pc = "done", !.res = NotAuthenticatedResponse]
    ELSE IF StartsWith(h.path, "/v1/messages")
    THEN LET anthropicReq == ParseBody(h.body).req
             openAIReq == translateAnthropicToOpenAI(anthropicReq, CODEX_SYSTEM_INSTRUCTIONS)
         IN  [h EXCEPT !.pc = "forwarding", !.conn = @ + 1,
                       !.sent = [req |-> openAIReq, token |-> codexToken,
                                 stream |-> anthropicReq.stream # "false"]]
    ELSE [h EXCEPT !.pc = "done", !.res = MockResponse]

\* faulty variant: the request is forwarded whatever the token is
AfterToken_NoTokenCheck(h, codexToken) ==
    IF StartsWith(h.path, "/v1/messages")
       /\ ParseBody(h.body).ok /\ ParseBody(h.body).valid
    THEN LET anthropicReq == ParseBody(h.body).req
             openAIReq == translateAnthropicToOpenAI(anthropicReq, CODEX_SYSTEM_INSTRUCTIONS)
         IN  [h EXCEPT !.pc = "forwarding", !.conn = @ + 1,
                       !.sent = [req |-> openAIReq, token |-> codexToken,
                                 stream |-> anthropicReq.stream # "false"]]
    ELSE [h EXCEPT !.pc = "done", !.res = MockResponse]

\* handleAnthropicRequest from the return of getValidAccessToken on: the
\* handler h with the token it was given
AfterToken(h, codexToken) ==
    IF codexToken \in {Null, Undefined}
    THEN [h EXCEPT !.pc = "done", !.res = NotAuthenticatedResponse]
    ELSE IF StartsWith(h.path, "/v1/messages")
    THEN LET parsed == ParseBody(h.body)
         IN  IF ~parsed.ok \/ ~parsed.valid
             THEN \* JSON.parse or the translation threw: the catch answers 400
                  [h EXCEPT !.pc = "done", !.res = InvalidRequestResponse]
             ELSE LET anthropicReq == parsed.req
                      openAIReq == translateAnthropicToOpenAI(anthropicReq,
                                                              CODEX_SYSTEM_INSTRUCTIONS)
                  IN  \* forwardToCodex: https.request opens one connection
                      [h EXCEPT !.pc = "forwarding", !.conn = @ + 1,
                                !.sent = [req |-> openAIReq, token |-> codexToken,
                                          stream |-> anthropicReq.stream # "false"]]
    ELSE \* /api/hello and unknown endpoints: a mock success
         [h EXCEPT !.pc = "done", !.res = MockResponse]

\* getValidAccessToken has returned to the handler
HdContinue ==
    /\ ~crashed
    /\ hd.pc = "token"
    /\ gv[HandlerCall].pc = "done"
    /\ hd' = AfterToken(hd, gv[HandlerCall].result)
    /\ UNCHANGED <<credVars, trVars, rl, lg, st>>

(***************************************************************************)
(* proxy.ts: forwardToCodex, the streaming path                            *)
(*                                                                         *)
(* Bytes and characters are the characters of TLA+ strings.  The two bytes *)
(* of one two-byte UTF-8 character are written # (lead) and % (trail); the *)
(* character they encode is written E and U+FFFD is written ?.  The chunks *)
(* are flat JSON objects, a short form of the wire format: key t is        *)
(* choices[0].delta.content and key f is choices[0].finish_reason; an      *)
(* object with neither key has no choices.                                 *)
(***************************************************************************)
LeadByte == "#"
TrailByte == "%"

\* one byte decoded on its own: half of a two-byte character gives U+FFFD
DecodeByte(b) == IF b \in {LeadByte, TrailByte} THEN "?" ELSE b

\* chunk.toString(): UTF-8 decoding of one read; a lead byte without its trail
\* byte in the same read, and a trail byte without its lead byte, each decode to
\* U+FFFD.  The bytes are decoded in two halves, cut where no character is cut.
RECURSIVE Utf8Decode(_)
Utf8Decode(bytes) ==
    LET n == Len(bytes)
        pair(i) == SubSeq(bytes, i, i) = LeadByte /\ SubSeq(bytes, i + 1, i + 1) = TrailByte
    IN  IF n = 0 THEN ""
        ELSE IF n = 1 THEN DecodeByte(bytes)
        ELSE IF n = 2
        THEN IF pair(1) THEN "E"
             ELSE DecodeByte(SubSeq(bytes, 1, 1)) \o DecodeByte(SubSeq(bytes, 2, 2))
        ELSE LET m == n \div 2
                 k == IF pair(m) THEN m + 1 ELSE m
             IN  Utf8Decode(SubSeq(bytes, 1, k)) \o Utf8Decode(SubSeq(bytes, k + 1, n))

\* s.indexOf(ch) + 1, 0 when ch is not in s
IndexOf(s, ch) ==
    LET at == {i \in 1..Len(s) : SubSeq(s, i, i) = ch}
    IN  IF at = {} THEN 0 ELSE CHOOSE i \in at : \A j \in at : i <= j

\* s.split("\n")
RECURSIVE Split(_)
Split(s) ==
    LET i == IndexOf(s, "\n")
    IN  IF i = 0 THEN <<s>>
        ELSE <<SubSeq(s, 1, i - 1)>> \o Split(Slice(s, i))

Digits == {"0", "1", "2", "3", "4", "5", "6", "7", "8", "9"}

SyntaxError == [ok |-> FALSE, obj |-> <<>>]

\* the members of a flat object, s being the text after { or after a comma:
\* "key":"string" or "key":digit, then a comma or the closing brace that ends
\* the text
RECURSIVE ParseMembers(_, _)
ParseMembers(s, obj) ==
    IF Len(s) < 2 \/ SubSeq(s, 1, 1) # "\"" THEN SyntaxError
    ELSE LET k == IndexOf(Slice(s, 1), "\"")
         IN  IF k = 0 THEN SyntaxError
             ELSE LET key == SubSeq(s, 2, k)
                      r == Slice(s, k + 1)
                  IN  IF Len(r) < 2 \/ SubSeq(r, 1, 1) # ":" THEN SyntaxError
                      ELSE LET v == Slice(r, 1)
                               isStr == SubSeq(v, 1, 1) = "\""
                               e == IF isStr THEN IndexOf(Slice(v, 1), "\"") ELSE 0
                               val == IF isStr THEN Str(SubSeq(v, 2, e))
                                      ELSE Num(IF SubSeq(v, 1, 1) = "0" THEN 0 ELSE 1)
                               rest == IF isStr THEN Slice(v, e + 1) ELSE Slice(v, 1)
                               obj2 == (key :> val) @@ obj
                           IN  IF isStr /\ e = 0 THEN SyntaxError
                               ELSE IF ~isStr /\ SubSeq(v, 1, 1) \notin Digits THEN SyntaxError
                               ELSE IF rest = "}" THEN [ok |-> TRUE, obj |-> obj2]
                               ELSE IF Len(rest) >= 2 /\ SubSeq(rest, 1, 1) = ","
                               THEN ParseMembers(Slice(rest, 1), obj2)
                               ELSE SyntaxError

\* JSON.parse(data) for flat objects; a trailing carriage return is white space
JsonParse(data) ==
    LET d == IF Len(data) >= 1 /\ SubSeq(data, Len(data), Len(data)) = "\r"
             THEN SubSeq(data, 1, Len(data) - 1) ELSE data
    IN  IF d = "{}" THEN [ok |-> TRUE, obj |-> <<>>]
        ELSE IF Len(d) >= 2 /\ SubSeq(d, 1, 1) = "{" THEN ParseMembers(Slice(d, 1), <<>>)
        ELSE SyntaxError

\* chunk.choices of a parsed chunk: undefined, or the one choice
Choices(obj) ==
    IF DOMAIN obj \cap {"t", "f"} = {} THEN Undefined
    ELSE [t |-> "array",
          first |-> [content |-> Get(obj, "t"), finish_reason |-> Get(obj, "f")]]

NoSignal == [type |-> "null", text |-> ""]

\* faulty variant: the delta text is looked at before the finish reason
translateOpenAIStreamChunk_TextFirst(choice) ==
    IF Truthy(choice.content)
    THEN [type |-> "content_block_delta",
          text |-> IF choice.content.t = "string" THEN choice.content.s ELSE ""]
    ELSE IF Truthy(choice.finish_reason) THEN [type |-> "message_stop", text |-> ""]
    ELSE NoSignal

\* translateOpenAIStreamChunk on the first choice
translateOpenAIStreamChunk(choice) ==
    IF Truthy(choice.finish_reason) THEN [type |-> "message_stop", text |-> ""]
    ELSE IF Truthy(choice.content)
    THEN [type |-> "content_block_delta",
          text |-> IF choice.content.t = "string" THEN choice.content.s ELSE ""]
    ELSE NoSignal

\* translateOpenAIStreamChunk from the chunk on: choices[0], null when the
\* list is empty
StreamChunkSignal(chunk) ==
    IF chunk.choices = <<>> THEN NoSignal
    ELSE translateOpenAIStreamChunk(chunk.choices[1])

\* the chunks the function is applied to: delta.content is a string, a list
\* of blocks, or not there; finish_reason is null until the last chunk
MaxChoices == 2
ListContent == [t |-> "array"]
DeltaContents == {Undefined, Null, Str(""), Str("hi"), ListContent}
FinishReasons == {Null, Undefined, Str("stop")}
StreamChoices == [content : DeltaContents, finish_reason : FinishReasons]
StreamChunks == {[choices |-> cs] : cs \in SeqsUpTo(StreamChoices, MaxChoices)}

(***************************************************************************)
(* oauth.ts: the start and run commands of the command line                *)
(*                                                                         *)
(* The command awaits getValidAccessToken (the call StartCall), then, for  *)
(* start --https, loadCertificates, then CodexProxyServer.start; start in  *)
(* HTTP mode opens the health check server afterwards.                     *)
(***************************************************************************)
StartCall == 1

Commands == {"start", "start --https", "run"}

\* the command before it is run: bound is set once the proxy port has been
\* bound, code is the exit code once the process has exited
IdleStart == [pc |-> "idle", cmd |-> "", bound |-> FALSE, health |-> FALSE, code |-> 0]

Exited(s, code) == [s EXCEPT !.pc = "exited", !.code = code]

\* faulty variant: the token is not looked at
AfterStartToken_NoCheck(s, token) ==
    [s EXCEPT !.pc = IF s.cmd = "start --https" THEN "certs" ELSE "binding"]

\* if (!token) process.exit(1), else on to the certificates or the server
AfterStartToken(s, token) ==
    IF token \in {Null, Undefined} THEN Exited(s, 1)
    ELSE [s EXCEPT !.pc = IF s.cmd = "start --https" THEN "certs" ELSE "binding"]

\* getValidAccessToken has returned to the command
StAfterToken ==
    /\ ~crashed
    /\ st.pc = "auth"
    /\ gv[StartCall].pc = "done"
    /\ st' = AfterStartToken(st, gv[StartCall].result)
    /\ UNCHANGED <<trVars, credVars, hd, rl, lg>>

\* loadCertificates: the certificates are there, or process.exit(1)
StCertificates ==
    /\ ~crashed
    /\ st.pc = "certs"
    /\ \E found \in BOOLEAN :
          st' = IF found THEN [st EXCEPT !.pc = "binding"] ELSE Exited(st, 1)
    /\ UNCHANGED <<trVars, credVars, hd, rl, lg>>

\* server.listen succeeds: start() resolves; start in HTTP mode goes on to the
\* health check server
StListen ==
    /\ ~crashed
    /\ st.pc = "binding"
    /\ st' = [st EXCEPT !.pc = IF st.cmd = "start" THEN "health" ELSE "serving",
                         !.bound = TRUE]
    /\ UNCHANGED <<trVars, credVars, hd, rl, lg>>

\* server.listen fails (port taken, privileged port): the error event rejects
\* start(), the catch prints and calls process.exit(1)
StListenFails ==
    /\ ~crashed
    /\ st.pc = "binding"
    /\ st' = Exited(st, 1)
    /\ UNCHANGED <<trVars, credVars, hd, rl, lg>>

\* createHealthCheckServer(port + 1) binds
StHealthListen ==
    /\ ~crashed
    /\ st.pc = "health"
    /\ st' = [st EXCEPT !.pc = "serving", !.health = TRUE]
    /\ UNCHANGED <<trVars, credVars, hd, rl, lg>>

\* createHealthCheckServer(port + 1) cannot bind: its error event has no
\* listener, the uncaught exception ends the process with code 1
StHealthFails ==
    /\ ~crashed
    /\ st.pc = "health"
    /\ st' = Exited(st, 1)
    /\ crashed' = TRUE
    /\ UNCHANGED <<trVars, tokenFile, now, gv, hd, rl, lg>>

\* an uncaught exception inside getValidAccessToken ends the process
StCrashed ==
    /\ crashed
    /\ st.pc = "auth"
    /\ st' = Exited(st, 1)
    /\ UNCHANGED <<trVars, credVars, hd, rl, lg>>

(***************************************************************************)
(* proxy.ts: handleRequest, the router                                     *)
(***************************************************************************)
ANTHROPIC_API_HOST == "api.anthropic.com"

\* s.includes(sub)
Includes(s, sub) ==
    \E i \in 1..(Len(s) - Len(sub) + 1) : SubSeq(s, i, i + Len(sub) - 1) = sub

\* host?.includes(sub): undefined, hence false, when the header is missing
HostIncludes(host, sub) == host.t = "string" /\ Includes(host.s, sub)

\* new URL(req.url || "/", `http://${req.headers.host}`) throws a TypeError:
\* the base does not parse (an empty host, a host with a space), or the
\* request target does not parse against it (an empty authority)
UrlThrows(host, url) ==
    \/ host.t = "string" /\ (host.s = "" \/ Includes(host.s, " "))
    \/ IF Len(url) <= 2 THEN url = "//"
       ELSE SubSeq(url, 1, 2) = "//" /\ SubSeq(url, 3, 3) \in {"/", "?"}

\* url.pathname: the request target up to the query
Pathname(url) ==
    LET target == IF url = "" THEN "/" ELSE url
        q == IndexOf(target, "?")
    IN  IF q = 0 THEN target ELSE SubSeq(target, 1, q - 1)

AuthPathPrefixes == {"/oauth", "/api/auth", "/v1/keys", "/v1/account"}

\* faulty variant: the auth rule is tried before the chat rule
Classify_AuthFirst(host, pathname) ==
    IF HostIncludes(host, "claude.ai") \/ HostIncludes(host, "platform.claude.com")
       \/ \E pre \in AuthPathPrefixes : StartsWith(pathname, pre)
    THEN "auth"
    ELSE IF HostIncludes(host, ANTHROPIC_API_HOST) \/ StartsWith(pathname, "/v1/messages")
    THEN "chat"
    ELSE "passthrough"

\* the if / else if / else of handleRequest
Classify(host, pathname) ==
    IF HostIncludes(host, ANTHROPIC_API_HOST) \/ StartsWith(pathname, "/v1/messages")
    THEN "chat"
    ELSE IF HostIncludes(host, "claude.ai") \/ HostIncludes(host, "platform.claude.com")
            \/ \E pre \in AuthPathPrefixes : StartsWith(pathname, pre)
    THEN "auth"
    ELSE "passthrough"

\* the Host headers (Undefined: none) and the request targets
Hosts ==
    {Undefined, Str(ANTHROPIC_API_HOST), Str("api.anthropic.com:443"), Str("claude.ai"),
     Str("platform.claude.com"), Str("localhost:8080"), Str(""), Str("local host")}
Targets ==
    {"", "/", "/v1/messages", "/v1/messages/count_tokens", "/oauth/token",
     "/api/auth/session", "/v1/keys", "/v1/account", "/v1/oauth/hello", "/health",
     "/x?next=/v1/messages", "//"}
InboundRequests == [host : Hosts, url : Targets]

(***************************************************************************)
(* translator.ts: translateOpenAIToAnthropic, and the end listener of the  *)
(* non-streaming path of forwardToCodex                                    *)
(***************************************************************************)
\* { type: "text", text: block.text || "" }
TextSegment(block) ==
    [type |-> "text", text |-> IF Truthy(block.text) THEN block.text.s ELSE ""]

\* the loop over the blocks of a list content
RECURSIVE TextSegments(_)
TextSegments(blocks) ==
    IF blocks = <<>> THEN <<>>
    ELSE (IF Head(blocks).type = "text" THEN <<TextSegment(Head(blocks))>> ELSE <<>>)
         \o TextSegments(Tail(blocks))

StopReason(finish_reason) ==
    IF finish_reason = Str("stop") THEN Str("end_turn")
    ELSE IF finish_reason = Str("length") THEN Str("max_tokens")
    ELSE Null

RenamedUsage(usage) ==
    IF usage = Undefined THEN Undefined
    ELSE [input_tokens |-> usage.prompt_tokens, output_tokens |-> usage.completion_tokens]

\* the translation of one choice of the response
TranslatedChoice(openAIResp, choice) ==
    [content |-> IF choice.content.t = "string"
                 THEN <<[type |-> "text", text |-> choice.content.s]>>
                 ELSE IF choice.content.t = "blocks" THEN TextSegments(choice.content.b)
                 ELSE <<>>,
     stop_reason |-> StopReason(choice.finish_reason),
     usage |-> RenamedUsage(openAIResp.usage)]

\* faulty variant: the last choice is translated
translateOpenAIToAnthropic_LastChoice(openAIResp) ==
    IF openAIResp.choices = <<>>
    THEN [content |-> <<>>, stop_reason |-> Null, usage |-> Undefined]
    ELSE TranslatedChoice(openAIResp, openAIResp.choices[Len(openAIResp.choices)])

translateOpenAIToAnthropic(openAIResp) ==
    IF openAIResp.choices = <<>>
    THEN [content |-> <<>>, stop_reason |-> Null, usage |-> Undefined]
    ELSE TranslatedChoice(openAIResp, openAIResp.choices[1])

\* the upstream body as JSON.parse and the read of choices[0] see it: text
\* that does not parse, a value with no choices list, or a response
Unparsable == [t |-> "unparsable"]
NoChoicesField == [t |-> "nochoices"]

ParseErrorAnswer ==
    [status |-> 502,
     body |-> [error |-> [type |-> "api_error",
                          message |-> "Error parsing upstream response"]]]

\* JSON.stringify of the message envelope: usage is left out when undefined
Envelope(id, anthropicResp, model) ==
    [k \in {"id", "type", "role", "content", "model", "stop_reason"}
            \cup (IF anthropicResp.usage = Undefined THEN {} ELSE {"usage"}) |->
        CASE k = "id" -> id
          [] k = "type" -> "message"
          [] k = "role" -> "assistant"
          [] k = "content" -> anthropicResp.content
          [] k = "model" -> model
          [] k = "stop_reason" -> anthropicResp.stop_reason
          [] k = "usage" -> anthropicResp.usage]

\* faulty variant: a response without a choice is answered as a parse error
NonStreamingAnswer_ChoiceRequired(upstream, model) ==
    IF upstream.body.t \in {"unparsable", "nochoices"} \/ upstream.body.choices = <<>>
    THEN ParseErrorAnswer
    ELSE [status |-> upstream.status,
          body |-> Envelope(upstream.body.id, translateOpenAIToAnthropic(upstream.body),
                            model)]

\* the end listener: parse, translate, answer with the upstream status; an
\* exception of JSON.parse, or of the read of choices[0] on a value with no
\* choices list, gives 502
NonStreamingAnswer(upstream, model) ==
    IF upstream.body.t \in {"unparsable", "nochoices"}
    THEN ParseErrorAnswer
    ELSE [status |-> upstream.status,
          body |-> Envelope(upstream.body.id, translateOpenAIToAnthropic(upstream.body),
                            model)]

\* the upstream responses
MaxBlocks == 2
ResponseBlocks ==
    {TextBlock("a"), TextBlock("b"), OtherBlock("image_url"),
     [type |-> "text", text |-> Undefined]}
ResponseContents ==
    {Null, Str(""), Str("hi")}
    \cup {[t |-> "blocks", b |-> bs] : bs \in SeqsUpTo(ResponseBlocks, MaxBlocks)}
ResponseFinishes == {Null, Str("stop"), Str("length"), Str("tool_calls")}
ResponseChoices == [content : ResponseContents, finish_reason : ResponseFinishes]
OtherChoice == [content |-> Str("other"), finish_reason |-> Str("length")]
ChoiceLists ==
    {<<>>} \cup {<<c>> \o [i \in 1..n |-> OtherChoice] :
                    c \in ResponseChoices, n \in 0..(MaxChoices - 1)}
Usages == {Undefined, [prompt_tokens |-> 3, completion_tokens |-> 5, total_tokens |-> 8]}
OpenAIResponses ==
    {[t |-> "json", id |-> "resp_1", choices |-> cs, usage |-> u] :
        cs \in ChoiceLists, u \in Usages}
UpstreamAnswers ==
    [status : {200, 500}, body : OpenAIResponses \cup {Unparsable, NoChoicesField}]

Event(ev) == [ev |-> ev, text |-> "", stop |-> ""]
DeltaEvent(text) == [ev |-> "content_block_delta", text |-> text, stop |-> ""]

\* faulty variant: a data line that does not parse is reported to the caller
LineResult_ReportsParseError(line) ==
    IF ~StartsWith(line, "data: ") THEN [frames |-> <<>>, events |-> <<>>]
    ELSE LET data == Slice(line, 6)
         IN  IF data = "[DONE]" THEN [frames |-> <<>>, events |-> <<>>]
             ELSE LET parsed == JsonParse(data)
                  IN  IF ~parsed.ok THEN [frames |-> <<>>, events |-> <<Event("error")>>]
                      ELSE IF Choices(parsed.obj) = Undefined
                      THEN [frames |-> <<parsed.obj>>, events |-> <<>>]
                      ELSE LET translated ==
                                   translateOpenAIStreamChunk(Choices(parsed.obj).first)
                           IN  [frames |-> <<parsed.obj>>,
                                events |->
                                   IF translated.type = "content_block_delta"
                                      /\ translated.text # ""
                                   THEN <<DeltaEvent(translated.text)>> ELSE <<>>]

\* what one complete line adds: the parsed frame (if the line is a data line
\* that parses) and the event written (if it translates to a text delta)
LineResult(line) ==
    IF ~StartsWith(line, "data: ") THEN [frames |-> <<>>, events |-> <<>>]
    ELSE LET data == Slice(line, 6)
         IN  IF data = "[DONE]" THEN [frames |-> <<>>, events |-> <<>>]
             ELSE LET parsed == JsonParse(data)
                  IN  IF ~parsed.ok THEN [frames |-> <<>>, events |-> <<>>]
                      ELSE IF Choices(parsed.obj) = Undefined
                      THEN \* chunk.choices[0] throws a TypeError, caught
                           [frames |-> <<parsed.obj>>, events |-> <<>>]
                      ELSE LET translated ==
                                   translateOpenAIStreamChunk(Choices(parsed.obj).first)
                           IN  [frames |-> <<parsed.obj>>,
                                events |->
                                   IF translated.type = "content_block_delta"
                                      /\ translated.text # ""
                                   THEN <<DeltaEvent(translated.text)>> ELSE <<>>]

RECURSIVE LinesResult(_)
LinesResult(lines) ==
    IF lines = <<>> THEN [frames |-> <<>>, events |-> <<>>]
    ELSE LET h == LineResult(Head(lines))
             r == LinesResult(Tail(lines))
         IN  [frames |-> h.frames \o r.frames, events |-> h.events \o r.events]

\* faulty variant: every segment is processed, the unfinished last one too, and
\* nothing is kept
OnData_NoBuffer(buffer, chunk) ==
    LET lines == Split(Utf8Decode(chunk))
        r == LinesResult(lines)
    IN  [buffer |-> "", frames |-> r.frames, events |-> r.events]

\* the data listener: append the decoded read to the buffer, split, keep the
\* last segment, process the others
OnData(buffer, chunk) ==
    LET lines == Split(buffer \o Utf8Decode(chunk))
        r == LinesResult(SubSeq(lines, 1, Len(lines) - 1))
    IN  [buffer |-> lines[Len(lines)], frames |-> r.frames, events |-> r.events]

\* written when the response headers arrive
OpeningEvents == <<Event("message_start"), Event("content_block_start")>>

\* written by the end listener
ClosingEvents ==
    <<Event("content_block_stop"),
      [ev |-> "message_delta", text |-> "", stop |-> "end_turn"],
      Event("message_stop")>>

\* faulty variant: the error listener writes the closing sequence too
OnResponseError_Closing(r) ==
    [r EXCEPT !.phase = "closed", !.how = "error", !.out = @ \o ClosingEvents,
              !.ended = @ + 1]

\* the error listener of the upstream response: res.end()
OnResponseError(r) ==
    [r EXCEPT !.phase = "closed", !.how = "error", !.ended = @ + 1]

(***************************************************************************)
(* The upstream streams                                                    *)
(***************************************************************************)
MaxLines == 2

TextLine == "data: {\"t\":\"hi\"}"
Utf8Line == "data: {\"t\":\"#%\"}"
EmptyTextLine == "data: {\"t\":\"\"}"
FinishLine == "data: {\"f\":\"stop\"}"
FinishLengthLine == "data: {\"f\":\"length\"}"
DoneLine == "data: [DONE]"
BlankLine == ""

\* the lines before the finish chunk, and the ways an upstream stream finishes
ContentLines == {TextLine, Utf8Line, EmptyTextLine, BlankLine}
Finishes == {<<>>, <<FinishLine>>, <<FinishLengthLine>>, <<FinishLine, DoneLine>>, <<DoneLine>>}
UpstreamStreams == {ls \o f : ls \in SeqsUpTo(ContentLines, MaxLines), f \in Finishes}

\* lines that carry no chunk: a comment (no data prefix), a data line that is
\* not JSON, a data line that parses to an object with no choices
CommentLine == ": ping"
GarbageLine == "data: {oops"
NoChoiceLine == "data: {\"x\":1}"
NoiseLines == {CommentLine, DoneLine, GarbageLine, NoChoiceLine}
NoisyStreams == SeqsUpTo(NoiseLines \cup {TextLine}, MaxLines) \ {<<>>}

\* the lines, each ended by a newline
RECURSIVE Wire(_)
Wire(lines) == IF lines = <<>> THEN "" ELSE Head(lines) \o "\n" \o Wire(Tail(lines))

IdleRelay ==
    [phase |-> "idle", lines |-> <<>>, src |-> "", pos |-> 0,
     buffer |-> "", frames |-> <<>>, head |-> <<>>, out |-> <<>>, ended |-> 0,
     how |-> ""]

\* https.request has been called for a streaming request
InitRelayStates ==
    {[IdleRelay EXCEPT !.phase = "connecting", !.lines = ls, !.src = Wire(ls)] :
        ls \in UpstreamStreams}

\* the request's error event before any response: 502 with an api_error body
RlRequestError ==
    /\ ~crashed
    /\ rl.phase = "connecting"
    /\ rl' = [rl EXCEPT !.phase = "closed", !.how = "request error",
                        !.head = Append(@, 502), !.ended = @ + 1]
    /\ UNCHANGED <<trVars, credVars, hd, lg, st>>

\* the request's error event after the response callback has run (the
\* connection is reset in mid-stream): the headers are sent, writeHead(502)
\* throws ERR_HTTP_HEADERS_SENT inside the listener, and the uncaught
\* exception ends the process
RlRequestErrorLate ==
    /\ ~crashed
    /\ rl.phase = "streaming"
    /\ rl' = [rl EXCEPT !.how = "request error"]
    /\ crashed' = TRUE
    /\ UNCHANGED <<trVars, tokenFile, now, gv, hd, lg, st>>

\* the response callback: writeHead (the upstream status, 200 here) and the
\* two opening events
RlResponse ==
    /\ ~crashed
    /\ rl.phase = "connecting"
    /\ rl' = [rl EXCEPT !.phase = "streaming", !.head = Append(@, 200),
                        !.out = @ \o OpeningEvents]
    /\ UNCHANGED <<trVars, credVars, hd, lg, st>>

\* a read of n bytes arrives
RlData ==
    /\ ~crashed
    /\ rl.phase = "streaming"
    /\ \E n \in 1..(Len(rl.src) - rl.pos) :
          LET d == OnData(rl.buffer, SubSeq(rl.src, rl.pos + 1, rl.pos + n))
          IN  rl' = [rl EXCEPT !.pos = @ + n, !.buffer = d.buffer,
                               !.frames = @ \o d.frames, !.out = @ \o d.events]
    /\ UNCHANGED <<trVars, credVars, hd, lg, st>>

\* faulty variant: the end listener processes what is left in the buffer
RlEnd_Flush ==
    /\ ~crashed
    /\ rl.phase = "streaming"
    /\ rl.pos = Len(rl.src)
    /\ rl' = [rl EXCEPT !.phase = "closed", !.how = "end", !.buffer = "",
                        !.frames = @ \o LineResult(rl.buffer).frames,
                        !.out = @ \o LineResult(rl.buffer).events \o ClosingEvents,
                        !.ended = @ + 1]
    /\ UNCHANGED <<trVars, credVars, hd, lg, st>>

\* the end of the upstream response, all its bytes read: the closing events
RlEnd ==
    /\ ~crashed
    /\ rl.phase = "streaming"
    /\ rl.pos = Len(rl.src)
    /\ rl' = [rl EXCEPT !.phase = "closed", !.how = "end", !.out = @ \o ClosingEvents,
                        !.ended = @ + 1]
    /\ UNCHANGED <<trVars, credVars, hd, lg, st>>

\* the upstream response fails after its headers
RlResponseError ==
    /\ ~crashed
    /\ rl.phase = "streaming"
    /\ rl' = OnResponseError(rl)
    /\ UNCHANGED <<trVars, credVars, hd, lg, st>>

(***************************************************************************)
(* proxy.ts: forwardToCodex, the non-streaming path                        *)
(*                                                                         *)
(* The response callback registers a data and an end listener on the       *)
(* upstream response and writes nothing.  The phases of this path are      *)
(* requesting, receiving, aborted and closed.  rl.buffer is the local data, *)
(* rl.frames the values JSON.parse has returned or thrown on, trReq the    *)
(* upstream answer whose body text is being read.                          *)
(***************************************************************************)
\* the text of an upstream body: three bytes for a response, two otherwise
BodyText(body) ==
    CASE body.t = "unparsable" -> "{x"
      [] body.t = "nochoices" -> "{}"
      [] OTHER -> "{c}"

\* JSON.parse(data): the body of the upstream answer when data is its whole
\* text; a proper prefix of it does not parse
ParseUpstream(data, upstream) ==
    IF data = BodyText(upstream.body) THEN upstream.body ELSE Unparsable

RequestErrorAnswer ==
    [status |-> 502,
     body |-> [error |-> [type |-> "api_error",
                          message |-> "Failed to connect to Codex API"]]]

\* res.writeHead(status) and res.end(body) on a response with no header sent
Answered(r, answer, how) ==
    [r EXCEPT !.phase = "closed", !.how = how, !.head = Append(@, answer.status),
              !.out = Append(@, answer.body), !.ended = @ + 1]

\* faulty variant: the data listener parses and answers at each read
OnBufferedData_Eager(r, chunk, upstream, model) ==
    LET data == r.buffer \o chunk
        parsed == ParseUpstream(data, upstream)
        answer == NonStreamingAnswer([status |-> upstream.status, body |-> parsed], model)
    IN  [r EXCEPT !.pos = @ + Len(chunk), !.buffer = data,
                  !.frames = Append(@, parsed), !.head = Append(@, answer.status),
                  !.out = Append(@, answer.body)]

\* the data listener: data += chunk
OnBufferedData(r, chunk, upstream, model) ==
    [r EXCEPT !.pos = @ + Len(chunk), !.buffer = @ \o chunk]

\* faulty variant: the catch answers 502 after the try has answered
OnBufferedEnd_CatchAfterAnswer(r, upstream, model) ==
    LET parsed == ParseUpstream(r.buffer, upstream)
        answer == NonStreamingAnswer([status |-> upstream.status, body |-> parsed], model)
    IN  [Answered(Answered(r, answer, "end"), ParseErrorAnswer, "end")
            EXCEPT !.frames = Append(@, parsed)]

\* the end listener: JSON.parse(data), translate, writeHead and end; the
\* catch answers 502
OnBufferedEnd(r, upstream, model) ==
    LET parsed == ParseUpstream(r.buffer, upstream)
        answer == NonStreamingAnswer([status |-> upstream.status, body |-> parsed], model)
    IN  [Answered(r, answer, "end") EXCEPT !.frames = Append(@, parsed)]

\* the request's error event: no header has been sent on this path, so the
\* listener answers 502 whether or not the response callback has run
BufRequestError ==
    /\ ~crashed
    /\ rl.phase \in {"requesting", "receiving"}
    /\ rl' = Answered(rl, RequestErrorAnswer, "request error")
    /\ UNCHANGED <<trVars, credVars, hd, lg, st>>

\* the response callback with stream false
BufResponse ==
    /\ ~crashed
    /\ rl.phase = "requesting"
    /\ rl' = [rl EXCEPT !.phase = "receiving"]
    /\ UNCHANGED <<trVars, credVars, hd, lg, st>>

\* a read of n bytes arrives
BufData ==
    /\ ~crashed
    /\ rl.phase = "receiving"
    /\ \E n \in 1..(Len(rl.src) - rl.pos) :
          rl' = OnBufferedData(rl, SubSeq(rl.src, rl.pos + 1, rl.pos + n), trReq,
                               "gpt-5.2-codex")
    /\ UNCHANGED <<trVars, credVars, hd, lg, st>>

\* the end of the upstream response, all its bytes read
BufEnd ==
    /\ ~crashed
    /\ rl.phase = "receiving"
    /\ rl.pos = Len(rl.src)
    /\ rl' = OnBufferedEnd(rl, trReq, "gpt-5.2-codex")
    /\ UNCHANGED <<trVars, credVars, hd, lg, st>>

\* the upstream closes the connection before the body is complete: the
\* response is destroyed; this path registers no error listener on it, so
\* no listener runs, now or later, and the promise stays pending
BufAborted ==
    /\ ~crashed
    /\ rl.phase = "receiving"
    /\ rl.pos < Len(rl.src)
    /\ rl' = [rl EXCEPT !.phase = "aborted", !.how = "response error"]
    /\ UNCHANGED <<trVars, credVars, hd, lg, st>>

(***************************************************************************)
(* oauth.ts: performOAuthLogin                                             *)
(*                                                                         *)
(* The flow starts with the promise pending, the five-minute timer armed   *)
(* and generatePKCE under way.  Callbacks are requests to the local        *)
(* listener; each is handled by its own run of the request listener.       *)
(***************************************************************************)
MaxCallbacks == 2

Callbacks == 1..MaxCallbacks

\* what generateRandomString can give, and the challenge of a verifier
Verifiers == {"v1", "v2"}
Challenge(verifier) == [sha256 |-> verifier]

\* what generateState can give, and what a callback can carry as state
GeneratedStates == {"s1", "s2"}
ReceivedStates == GeneratedStates \cup {"null"}

\* url.searchParams.get gives null for a parameter that is not there
ReceivedCodes == {"null", "code"}
ReceivedErrors == {"null", "access_denied"}
CallbackPaths == {"/auth/callback", "/favicon.ico"}

LOGIN_TIMEOUT == 5 * MinuteMs

TimeoutError == "OAuth timeout - authorization took too long"
MissingCodeError == "Missing authorization code"
CsrfError == "Invalid state - potential CSRF attack"
ExchangeError == "Token exchange failed"

\* the answers of the token endpoint to the exchange made for callback i
ExchangeBodies(i) ==
    {[access_token |-> Tok(i), refresh_token |-> Tok(i), expires_in |-> Undefined],
     [access_token |-> Tok(i), refresh_token |-> Undefined, expires_in |-> Num(60)]}

\* one run of the request listener: its position, the request it was sent,
\* the exchange request it made, the tokenData it built, and the status and
\* the error message it answered with
IdleCallback ==
    [pc |-> "idle", path |-> "", code |-> "null", state |-> "null", error |-> "null",
     sent |-> NoResult, tokenData |-> Null, status |-> 0, message |-> ""]

\* the flow before performOAuthLogin is called
IdleLogin ==
    [pc |-> "idle", state |-> "", pkce |-> Null, url |-> Null, listening |-> FALSE,
     timerFired |-> FALSE, outcome |-> "none", error |-> "", result |-> Null,
     cb |-> [i \in Callbacks |-> IdleCallback]]

\* performOAuthLogin has been called: state generated, server created, timer set
InitLoginStates ==
    {[IdleLogin EXCEPT !.pc = "authorizing", !.state = generated, !.outcome = "pending"] :
        generated \in GeneratedStates}

\* reject(new Error(message)): a promise settles once
Rejected(l, message) ==
    IF l.outcome = "pending" THEN [l EXCEPT !.outcome = "rejected", !.error = message]
    ELSE l

\* resolve(tokenData)
Resolved(l, tokenData) ==
    IF l.outcome = "pending" THEN [l EXCEPT !.outcome = "resolved", !.result = tokenData]
    ELSE l

\* no timer callback is due: the timer callback runs before other events
\* once the five minutes are over
TimerNotDue == now < LOGIN_TIMEOUT \/ lg.timerFired

\* pkcePromise resolves and server.listen succeeds: the listener accepts
\* callbacks and the authorization URL is built and shown
LgListen ==
    /\ ~crashed
    /\ lg.pc = "authorizing"
    /\ \E v \in Verifiers :
          LET pkce == [verifier |-> v, challenge |-> Challenge(v)]
          IN  lg' = [lg EXCEPT !.pc = "awaiting", !.pkce = pkce, !.listening = TRUE,
                               !.url = [code_challenge |-> pkce.challenge,
                                        state |-> lg.state]]
    /\ UNCHANGED <<trVars, credVars, hd, rl, st>>

\* server.listen fails (the port is taken): the server's error event has no
\* listener, and the uncaught exception ends the process
LgListenFails ==
    /\ ~crashed
    /\ lg.pc = "authorizing"
    /\ crashed' = TRUE
    /\ UNCHANGED <<trVars, tokenFile, now, gv, hd, rl, lg, st>>

\* the answer to a callback that is refused: the error page, server.close(),
\* reject
Refused(l, i, status, message) ==
    Rejected([l EXCEPT !.listening = FALSE, !.cb[i].pc = "done",
                       !.cb[i].status = status, !.cb[i].message = message],
             message)

\* faulty variant: the state is not compared
OnCallback_NoStateCheck(l, i, path, code, state, error) ==
    LET m == [l EXCEPT !.cb[i].path = path, !.cb[i].code = code,
                       !.cb[i].state = state, !.cb[i].error = error]
    IN  IF path # "/auth/callback"
        THEN [l EXCEPT !.cb[i].pc = "done", !.cb[i].path = path, !.cb[i].status = 404]
        ELSE IF error \notin {"null", ""} THEN Refused(m, i, 400, error)
        ELSE IF code \in {"null", ""} THEN Refused(m, i, 400, MissingCodeError)
        ELSE [m EXCEPT !.cb[i].pc = "exchange",
                       !.cb[i].sent = [code |-> code, code_verifier |-> l.pkce.verifier]]

\* faulty variant: the presence of the code is not checked
OnCallback_NoCodeCheck(l, i, path, code, state, error) ==
    LET m == [l EXCEPT !.cb[i].path = path, !.cb[i].code = code,
                       !.cb[i].state = state, !.cb[i].error = error]
    IN  IF path # "/auth/callback"
        THEN [l EXCEPT !.cb[i].pc = "done", !.cb[i].path = path, !.cb[i].status = 404]
        ELSE IF error \notin {"null", ""} THEN Refused(m, i, 400, error)
        ELSE IF state # l.state THEN Refused(m, i, 400, CsrfError)
        ELSE [m EXCEPT !.cb[i].pc = "exchange",
                       !.cb[i].sent = [code |-> code, code_verifier |-> l.pkce.verifier]]

\* the request listener up to its await: the checks of the callback, then
\* the exchange request
OnCallback(l, i, path, code, state, error) ==
    LET m == [l EXCEPT !.cb[i].path = path, !.cb[i].code = code,
                       !.cb[i].state = state, !.cb[i].error = error]
    IN  IF path # "/auth/callback"
        THEN [l EXCEPT !.cb[i].pc = "done", !.cb[i].path = path, !.cb[i].status = 404]
        ELSE IF error \notin {"null", ""} THEN Refused(m, i, 400, error)
        ELSE IF code \in {"null", ""} THEN Refused(m, i, 400, MissingCodeError)
        ELSE IF state # l.state THEN Refused(m, i, 400, CsrfError)
        ELSE [m EXCEPT !.cb[i].pc = "exchange",
                       !.cb[i].sent = [code |-> code, code_verifier |-> l.pkce.verifier]]

\* a request reaches the listener
LgCallback(i) ==
    /\ ~crashed
    /\ TimerNotDue
    /\ lg.listening
    /\ lg.cb[i].pc = "idle"
    /\ \A j \in 1..(i - 1) : lg.cb[j].pc # "idle"
    /\ \E path \in CallbackPaths, code \in ReceivedCodes, state \in ReceivedStates,
          error \in ReceivedErrors :
          lg' = OnCallback(lg, i, path, code, state, error)
    /\ UNCHANGED <<trVars, credVars, hd, rl, st>>

\* exchangeCodeForTokens rejects (a status other than 200, or the request's
\* error event): the catch answers 500, closes the server and rejects
LgExchangeRejected(i) ==
    /\ ~crashed
    /\ TimerNotDue
    /\ lg.cb[i].pc = "exchange"
    /\ lg' = Refused(lg, i, 500, ExchangeError)
    /\ UNCHANGED <<trVars, credVars, hd, rl, st>>

\* a 200 answer whose body does not parse: JSON.parse throws inside the end
\* listener of the response, uncaught
LgExchangeUnparsable(i) ==
    /\ ~crashed
    /\ TimerNotDue
    /\ lg.cb[i].pc = "exchange"
    /\ crashed' = TRUE
    /\ UNCHANGED <<trVars, tokenFile, now, gv, hd, rl, lg, st>>

\* a 200 answer that parses: tokenData is built and fs.writeFile starts
LgExchanged(i) ==
    /\ ~crashed
    /\ TimerNotDue
    /\ lg.cb[i].pc = "exchange"
    /\ \E tokens \in ExchangeBodies(i) :
          lg' = [lg EXCEPT !.cb[i].pc = "save", !.cb[i].tokenData = NewTokens(tokens, now)]
    /\ UNCHANGED <<trVars, credVars, hd, rl, st>>

\* fs.writeFile opens TOKEN_FILE: created or truncated
LgSaveOpen(i) ==
    /\ ~crashed
    /\ TimerNotDue
    /\ lg.cb[i].pc = "save"
    /\ tokenFile' = EmptyFile
    /\ lg' = [lg EXCEPT !.cb[i].pc = "write"]
    /\ UNCHANGED <<trVars, now, crashed, gv, hd, rl, st>>

\* fs.writeFile writes the text
LgSaveWrite(i) ==
    /\ ~crashed
    /\ TimerNotDue
    /\ lg.cb[i].pc = "write"
    /\ tokenFile' = Written(tokenFile, [newTokens |-> lg.cb[i].tokenData, orphan |-> FALSE])
    /\ lg' = [lg EXCEPT !.cb[i].pc = "saved"]
    /\ UNCHANGED <<trVars, now, crashed, gv, hd, rl, st>>

\* the file is written: the success page, server.close(), resolve(tokenData)
LgRespond(i) ==
    /\ ~crashed
    /\ TimerNotDue
    /\ lg.cb[i].pc = "saved"
    /\ lg' = Resolved([lg EXCEPT !.listening = FALSE, !.cb[i].pc = "done",
                                 !.cb[i].status = 200],
                      lg.cb[i].tokenData)
    /\ UNCHANGED <<trVars, credVars, hd, rl, st>>

\* the timer callback, five minutes after the start: server.close(), reject
LgTimeout ==
    /\ ~crashed
    /\ now = LOGIN_TIMEOUT
    /\ ~lg.timerFired
    /\ lg' = Rejected([lg EXCEPT !.timerFired = TRUE, !.listening = FALSE], TimeoutError)
    /\ UNCHANGED <<trVars, credVars, hd, rl, st>>

\* the time up to the timeout passes (generatePKCE and listen take no such
\* time)
LgTick ==
    /\ ~crashed
    /\ lg.pc = "awaiting"
    /\ now < LOGIN_TIMEOUT
    /\ now' = LOGIN_TIMEOUT
    /\ UNCHANGED <<trVars, tokenFile, crashed, gv, hd, rl, lg, st>>

(***************************************************************************)
(* Specifications                                                          *)
(***************************************************************************)
TrIdle == trReq = NoResult /\ trOut = NoResult
CredIdle ==
    /\ tokenFile = NoFile
    /\ now = 0
    /\ crashed = FALSE
    /\ gv = [c \in Calls |-> IdleCall]

\* translateAnthropicToOpenAI is applied to the drawn request
Translate ==
    /\ trOut = NoResult
    /\ trOut' = translateAnthropicToOpenAI(trReq, CODEX_SYSTEM_INSTRUCTIONS)
    /\ UNCHANGED <<trReq, credVars, hd, rl, lg, st>>

InitTranslate ==
    /\ trReq \in SourceRequests
    /\ trOut = NoResult
    /\ CredIdle
    /\ hd = IdleHandler
    /\ rl = IdleRelay
    /\ lg = IdleLogin
    /\ st = IdleStart

NextTranslate == Translate

SpecTranslate == InitTranslate /\ [][NextTranslate]_vars

\* the command has been invoked and awaits getValidAccessToken
InitStart ==
    /\ TrIdle
    /\ tokenFile \in InitialFiles
    /\ now = 0
    /\ crashed = FALSE
    /\ gv = [c \in Calls |-> IdleCall]
    /\ hd = IdleHandler
    /\ rl = IdleRelay
    /\ lg = IdleLogin
    /\ st \in {[IdleStart EXCEPT !.pc = "auth", !.cmd = cmd] : cmd \in Commands}

NextStart ==
    \/ GvStart(StartCall)
    \/ GvLoad(StartCall)
    \/ GvRefreshRejected(StartCall)
    \/ GvRefreshUnparsable(StartCall)
    \/ GvRefreshed(StartCall)
    \/ GvSaveOpen(StartCall)
    \/ GvSaveWrite(StartCall)
    \/ GvReturn(StartCall)
    \/ Tick
    \/ StAfterToken
    \/ StCertificates
    \/ StListen
    \/ StListenFails
    \/ StHealthListen
    \/ StHealthFails
    \/ StCrashed

SpecStart == InitStart /\ [][NextStart]_vars

\* handleRequest runs on the drawn request and calls one handler
Route ==
    /\ ~crashed
    /\ trOut = NoResult
    /\ ~UrlThrows(trReq.host, trReq.url)
    /\ trOut' = [class |-> Classify(trReq.host, Pathname(trReq.url)), handlers |-> 1]
    /\ UNCHANGED <<trReq, credVars, hd, rl, lg, st>>

\* new URL throws in handleRequest: the promise of the async function is
\* rejected and nobody handles it.  The process ends on the unhandled
\* rejection, or (a runtime that only warns) lives on with the request never
\* answered.
RouteThrows ==
    /\ ~crashed
    /\ trOut = NoResult
    /\ UrlThrows(trReq.host, trReq.url)
    /\ trOut' = [class |-> "none", handlers |-> 0]
    /\ crashed' \in BOOLEAN
    /\ UNCHANGED <<trReq, tokenFile, now, gv, hd, rl, lg, st>>

InitRouter ==
    /\ trReq \in InboundRequests
    /\ trOut = NoResult
    /\ CredIdle
    /\ hd = IdleHandler
    /\ rl = IdleRelay
    /\ lg = IdleLogin
    /\ st = IdleStart

NextRouter == Route \/ RouteThrows

SpecRouter == InitRouter /\ [][NextRouter]_vars

\* the end listener of the non-streaming path runs on the drawn upstream
\* answer
NsEnd ==
    /\ trOut = NoResult
    /\ trOut' = NonStreamingAnswer(trReq, "gpt-5.2-codex")
    /\ UNCHANGED <<trReq, credVars, hd, rl, lg, st>>

InitResponse ==
    /\ trReq \in UpstreamAnswers
    /\ trOut = NoResult
    /\ CredIdle
    /\ hd = IdleHandler
    /\ rl = IdleRelay
    /\ lg = IdleLogin
    /\ st = IdleStart

SpecResponse == InitResponse /\ [][NsEnd]_vars

\* translateOpenAIStreamChunk is applied to the drawn chunk
TranslateStreamChunk ==
    /\ trOut = NoResult
    /\ trOut' = StreamChunkSignal(trReq)
    /\ UNCHANGED <<trReq, credVars, hd, rl, lg, st>>

InitChunk ==
    /\ trReq \in StreamChunks
    /\ trOut = NoResult
    /\ CredIdle
    /\ hd = IdleHandler
    /\ rl = IdleRelay
    /\ lg = IdleLogin
    /\ st = IdleStart

SpecChunk == InitChunk /\ [][TranslateStreamChunk]_vars

InitCred ==
    /\ TrIdle
    /\ tokenFile \in InitialFiles
    /\ now = 0
    /\ crashed = FALSE
    /\ gv = [c \in Calls |-> IdleCall]
    /\ hd = IdleHandler
    /\ rl = IdleRelay
    /\ lg = IdleLogin
    /\ st = IdleStart

NextCred ==
    \/ \E c \in Calls : GvStart(c)
    \/ \E c \in Calls : GvLoad(c)
    \/ \E c \in Calls : GvRefreshRejected(c)
    \/ \E c \in Calls : GvRefreshUnparsable(c)
    \/ \E c \in Calls : GvRefreshed(c)
    \/ \E c \in Calls : GvSaveOpen(c)
    \/ \E c \in Calls : GvSaveWrite(c)
    \/ \E c \in Calls : GvReturn(c)
    \/ Clear
    \/ Tick

SpecCred == InitCred /\ [][NextCred]_vars

InitHandler == InitCred

\* one request: the calls of getValidAccessToken other than its own stay idle
NextHandler ==
    \/ HdReceive
    \/ HdReadBody
    \/ HdContinue
    \/ GvLoad(HandlerCall)
    \/ GvRefreshRejected(HandlerCall)
    \/ GvRefreshUnparsable(HandlerCall)
    \/ GvRefreshed(HandlerCall)
    \/ GvSaveOpen(HandlerCall)
    \/ GvSaveWrite(HandlerCall)
    \/ GvReturn(HandlerCall)
    \/ Clear
    \/ Tick

SpecHandler == InitHandler /\ [][NextHandler]_vars

InitRelay ==
    /\ TrIdle
    /\ CredIdle
    /\ hd = IdleHandler
    /\ rl \in InitRelayStates
    /\ lg = IdleLogin
    /\ st = IdleStart

NextRelay ==
    \/ RlRequestError
    \/ RlRequestErrorLate
    \/ RlResponse
    \/ RlData
    \/ RlEnd
    \/ RlResponseError

SpecRelay == InitRelay /\ [][NextRelay]_vars

\* https.request has been called for a request with stream false
InitBuffered ==
    /\ trReq \in UpstreamAnswers
    /\ trOut = NoResult
    /\ CredIdle
    /\ hd = IdleHandler
    /\ rl = [IdleRelay EXCEPT !.phase = "requesting", !.src = BodyText(trReq.body)]
    /\ lg = IdleLogin
    /\ st = IdleStart

NextBuffered ==
    \/ BufRequestError
    \/ BufResponse
    \/ BufData
    \/ BufEnd
    \/ BufAborted

SpecBuffered == InitBuffered /\ [][NextBuffered]_vars

\* forwardToCodex on either path
InitForward == InitRelay \/ InitBuffered

NextForward == NextRelay \/ NextBuffered

SpecForward == InitForward /\ [][NextForward]_vars

\* the relay on upstream streams that mix text chunks with lines that carry
\* no chunk
InitNoise ==
    /\ TrIdle
    /\ CredIdle
    /\ hd = IdleHandler
    /\ rl \in {[IdleRelay EXCEPT !.phase = "connecting", !.lines = ls, !.src = Wire(ls)] :
                  ls \in NoisyStreams}
    /\ lg = IdleLogin
    /\ st = IdleStart

SpecNoise == InitNoise /\ [][NextRelay]_vars

\* the relay on upstream streams whose last line has no newline after it
TailLines == {TextLine, EmptyTextLine, FinishLine, DoneLine}
TailStreams == SeqsUpTo(TailLines, MaxLines) \ {<<>>}
Unterminated(lines) == SubSeq(Wire(lines), 1, Len(Wire(lines)) - 1)

InitTail ==
    /\ TrIdle
    /\ CredIdle
    /\ hd = IdleHandler
    /\ rl \in {[IdleRelay EXCEPT !.phase = "connecting", !.lines = ls,
                                 !.src = Unterminated(ls)] : ls \in TailStreams}
    /\ lg = IdleLogin
    /\ st = IdleStart

SpecTail == InitTail /\ [][NextRelay]_vars

\* the relay on upstream streams in which chunks may follow the finish chunk
AfterFinishStreams == SeqsUpTo({TextLine, FinishLine, DoneLine}, MaxLines) \ {<<>>}

InitAfterFinish ==
    /\ TrIdle
    /\ CredIdle
    /\ hd = IdleHandler
    /\ rl \in {[IdleRelay EXCEPT !.phase = "connecting", !.lines = ls, !.src = Wire(ls)] :
                  ls \in AfterFinishStreams}
    /\ lg = IdleLogin
    /\ st = IdleStart

SpecAfterFinish == InitAfterFinish /\ [][NextRelay]_vars

\* forwardToCodex on either path, on the streams of InitNoise (which keep the
\* graph of behaviours small): the upstream keeps delivering while an event of
\* it is due, and the event loop runs every listener whose event has arrived
InitForwardFair == InitNoise \/ InitBuffered

SpecForwardFair == InitForwardFair /\ [][NextForward]_vars /\ WF_vars(NextForward)

InitLogin ==
    /\ TrIdle
    /\ CredIdle
    /\ hd = IdleHandler
    /\ rl = IdleRelay
    /\ lg \in InitLoginStates
    /\ st = IdleStart

NextLogin ==
    \/ LgListen
    \/ LgListenFails
    \/ \E i \in Callbacks : LgCallback(i)
    \/ \E i \in Callbacks : LgExchangeRejected(i)
    \/ \E i \in Callbacks : LgExchangeUnparsable(i)
    \/ \E i \in Callbacks : LgExchanged(i)
    \/ \E i \in Callbacks : LgSaveOpen(i)
    \/ \E i \in Callbacks : LgSaveWrite(i)
    \/ \E i \in Callbacks : LgRespond(i)
    \/ LgTimeout
    \/ LgTick

SpecLogin == InitLogin /\ [][NextLogin]_vars

\* the event loop runs what is due: the continuation of generatePKCE and the
\* timer callback; time passes.  Nothing obliges a callback or an answer of
\* the token endpoint to arrive.
SpecLoginFair ==
    /\ SpecLogin
    /\ WF_vars(LgListen \/ LgListenFails)
    /\ WF_vars(LgTick)
    /\ WF_vars(LgTimeout)

(***************************************************************************)
(* Properties of the translator, under SpecTranslate                       *)
(***************************************************************************)
Translated == trOut # NoResult

\* C5: for every input identifier mapModel returns a configured target
\* identifier: the table's entry for an identifier of the table, the default
\* target gpt-5.2-codex for any other, and never a value that is not an
\* identifier
C5_MapModelTotal ==
    Translated =>
        /\ trOut.model.t = "string"
        /\ trOut.model.s \in TargetIds
        /\ trOut.model.s = IF trReq.model \in DOMAIN MODEL_MAP
                           THEN MODEL_MAP[trReq.model] ELSE "gpt-5.2-codex"

\* the text of the text blocks b[1..n], in order
RECURSIVE TextUpTo(_, _)
TextUpTo(b, n) ==
    IF n = 0 THEN ""
    ELSE TextUpTo(b, n - 1) \o (IF b[n].type = "text" THEN b[n].text.s ELSE "")

HasSystem == trReq.system.t = "string" /\ trReq.system.s # ""

\* C6: the target message list is the system instruction as a first message
\* of role system (when there is one) followed by one message per source
\* message, in the same order and with the same role; it is not empty when
\* the source has a system instruction or a message
C6_MessageSequencePreserved ==
    Translated =>
        LET off == IF HasSystem THEN 1 ELSE 0
            src == trReq.messages
            tgt == trOut.messages
        IN  /\ Len(tgt) = Len(src) + off
            /\ HasSystem => tgt[1] = [role |-> "system", content |-> trReq.system.s]
            /\ \A i \in 1..Len(src) :
                  /\ tgt[i + off].role = src[i].role
                  /\ tgt[i + off].content =
                        IF src[i].content.t = "string" THEN src[i].content.s
                        ELSE TextUpTo(src[i].content.b, Len(src[i].content.b))
            /\ (HasSystem \/ Len(src) > 0) => Len(tgt) > 0

\* system "X" and one user message "Y" give [{system, "X"}, {user, "Y"}]
C6_Witness ==
    /\ Translated
    /\ trReq.system = Str("X")
    /\ trReq.messages = <<[role |-> "user", content |-> [t |-> "string", s |-> "Y"]]>>
    /\ trOut.messages = <<[role |-> "system", content |-> "X"],
                          [role |-> "user", content |-> "Y"]>>

(***************************************************************************)
(* Properties of getValidAccessToken, under SpecCred                       *)
(***************************************************************************)
\* the persisted credential: the file is there and holds a credential
CredentialPresent == tokenFile.t = "json"

\* call c learns what the file holds in this step
Loads(c) == gv[c].pc = "load" /\ gv'[c].pc # "load"

\* C7: a call refreshes exactly when a credential is present and
\* now >= expires_at - 5 minutes; when now is earlier it returns the stored
\* access token with no refresh and no write to the file; when no credential
\* is present it returns absent with no refresh
C7_RefreshExactlyInsideMargin ==
    [][\A c \in Calls :
          Loads(c) =>
             LET inside == /\ CredentialPresent
                           /\ now >= tokenFile.obj.expires_at.n - 5 * 60 * 1000
             IN  /\ (gv'[c].pc = "refresh") = inside
                 /\ inside => gv'[c].sent = Get(tokenFile.obj, "refresh_token")
                 /\ ~inside =>
                       /\ gv'[c].pc = "done"
                       /\ tokenFile' = tokenFile
                       /\ gv'[c].result = IF CredentialPresent
                                          THEN tokenFile.obj.access_token ELSE Null]_vars

\* a credential expiring exactly 5 minutes from now has sent a call into the
\* refresh exchange
C7_Witness ==
    \E c \in Calls :
        /\ gv[c].pc = "refresh"
        /\ CredentialPresent
        /\ tokenFile.obj.expires_at.n = now + 5 * 60 * 1000

\* C8: whenever the refresh fails (an answer other than 200, a transport
\* failure, or a 200 answer whose body does not parse) the call returns
\* absent, the process goes on, and the persisted credential is unchanged
C8_RefreshFailureReturnsAbsent ==
    [][/\ crashed' = crashed
       /\ \A c \in Calls :
             (gv[c].pc = "refresh" /\ gv'[c].pc \notin {"refresh", "save"}) =>
                /\ gv'[c].pc = "done"
                /\ gv'[c].result = Null
                /\ tokenFile' = tokenFile]_vars

\* C9: when the refresh succeeds the call returns the new access token and
\* the persisted credential is then the new one: a Load after the return
\* yields it (a logout in between aside)
C9_LoadAfterReturnYieldsNew ==
    [][\A c \in Calls :
          (gv[c].pc = "saved" /\ gv'[c].pc = "done") =>
             /\ gv'[c].result = gv[c].newTokens.access_token
             /\ tokenFile' # NoFile =>
                   /\ loadTokens(tokenFile') # Null
                   /\ Get(loadTokens(tokenFile'), "access_token")
                         = gv[c].newTokens.access_token]_vars

(***************************************************************************)
(* Properties of handleAnthropicRequest, under SpecHandler                 *)
(***************************************************************************)
\* the Authorization header is "Bearer " followed by a key starting "sk-ant-"
CredentialMatches == Len(hd.auth) >= 14 /\ SubSeq(hd.auth, 1, 14) = "Bearer sk-ant-"

Received == hd.pc # "idle"

WellFormedJson == {RequestText, RequestTextNoStream, "null", "{}"}

\* an answered request of the chat endpoint with an accepted credential and a
\* body that is not well-formed JSON
MalformedAnswered ==
    /\ hd.pc = "done"
    /\ CredentialMatches
    /\ StartsWith(hd.path, "/v1/messages")
    /\ hd.body \notin WellFormedJson

\* C10 as stated: every chat-path request with an accepted credential and a
\* body that is not well-formed JSON is answered 400 invalid_request_error
\* and opens no outbound connection
C10_MalformedBodyIs400 ==
    MalformedAnswered =>
        /\ hd.res.status = 400
        /\ hd.res.type = "invalid_request_error"
        /\ hd.conn = 0

\* C10, amended: such a request on a path starting /v1/messages is answered
\* 400 invalid_request_error when getValidAccessToken returned a token and
\* 401 authentication_error when it returned none; no outbound connection is
\* opened either way
C10_MalformedBodyAfterToken ==
    MalformedAnswered =>
        /\ hd.conn = 0
        /\ gv[HandlerCall].pc = "done"
        /\ IF gv[HandlerCall].result.t = "token"
           THEN hd.res.status = 400 /\ hd.res.type = "invalid_request_error"
           ELSE hd.res.status = 401 /\ hd.res.type = "authentication_error"

\* a truncated body has been answered 400 with a token in hand
C10_Witness ==
    /\ MalformedAnswered
    /\ hd.body = "{\"model\":"
    /\ gv[HandlerCall].result.t = "token"
    /\ hd.res.status = 400

(***************************************************************************)
(* Properties of the stream relay, under SpecRelay                         *)
(***************************************************************************)
ClosedByEnd == rl.phase = "closed" /\ rl.how = "end"
ClosedByError == rl.phase = "closed" /\ rl.how = "error"

EventNames(out) == [i \in 1..Len(out) |-> out[i].ev]
Deltas(n) == [i \in 1..n |-> "content_block_delta"]
Opening == <<"message_start", "content_block_start">>
Closing == <<"content_block_stop", "message_delta", "message_stop">>

\* content chunks (with the blank lines that separate them), then a finish
\* chunk, then nothing but the end marker
WellFormedStream(lines) ==
    \E k \in 1..Len(lines) :
        /\ lines[k] \in {FinishLine, FinishLengthLine}
        /\ \A i \in 1..(k - 1) : lines[i] \in ContentLines
        /\ \A i \in (k + 1)..Len(lines) : lines[i] = DoneLine

\* the number of upstream chunks that carry non-empty text
TextChunks(lines) == Cardinality({i \in 1..Len(lines) : lines[i] \in {TextLine, Utf8Line}})

\* C1: for an upstream stream of content chunks followed by a finish chunk
\* and the end of the stream, the caller is written exactly message_start,
\* content_block_start, one content_block_delta per chunk with non-empty
\* text, content_block_stop, message_delta, message_stop, in that order
C1_ExactEventSequence ==
    (ClosedByEnd /\ WellFormedStream(rl.lines)) =>
        /\ EventNames(rl.out) = Opening \o Deltas(TextChunks(rl.lines)) \o Closing
        /\ Len(rl.head) = 1
        /\ rl.ended = 1

\* two text chunks and a finish chunk have been relayed to the end
C1_Witness ==
    /\ ClosedByEnd
    /\ rl.lines = <<TextLine, Utf8Line, FinishLine, DoneLine>>
    /\ Len(rl.out) = 7

\* message_start, content_block_start, deltas, and the three closing events
FramingComplete(out) ==
    /\ Len(out) >= 5
    /\ EventNames(out) = Opening \o Deltas(Len(out) - 5) \o Closing

\* C2 as stated: the complete framing is written even when the upstream
\* stream ends abruptly (a response error after the headers, or an end with
\* no finish chunk) or gives no content delta
C2_FramingAlwaysComplete ==
    (ClosedByEnd \/ ClosedByError) => FramingComplete(rl.out)

\* C2, amended: the complete framing is written whenever the upstream
\* response ends, with or without a finish chunk and with or without content
\* deltas; when the upstream response reports an error after its headers the
\* caller's response is ended with the opening events and the deltas written
\* so far, and no closing event
C2_FramingCompleteAtEnd ==
    /\ ClosedByEnd => FramingComplete(rl.out)
    /\ ClosedByError =>
          /\ Len(rl.out) >= 2
          /\ EventNames(rl.out) = Opening \o Deltas(Len(rl.out) - 2)
          /\ rl.ended = 1

\* a stream with no finish chunk and no text has ended with the five events
C2_Witness ==
    /\ ClosedByEnd
    /\ \A i \in 1..Len(rl.lines) : rl.lines[i] # FinishLine
    /\ Len(rl.lines) > 0
    /\ Len(rl.out) = 5

DeltaEvents(out) == SelectSeq(out, LAMBDA e : e.ev = "content_block_delta")

\* C3: however the upstream bytes are split into reads, the frames parsed and
\* the delta events written are those of the same bytes arriving in one read
C3_ReadBoundariesIrrelevant ==
    ClosedByEnd =>
        /\ rl.frames = OnData("", rl.src).frames
        /\ DeltaEvents(rl.out) = OnData("", rl.src).events

(***************************************************************************)
(* Further properties of handleAnthropicRequest, under SpecHandler         *)
(***************************************************************************)
\* getValidAccessToken has returned no token to the handler
TokenAbsent ==
    /\ gv[HandlerCall].pc = "done"
    /\ gv[HandlerCall].result.t # "token"

\* C11: a chat request for which getValidAccessToken returns absent is
\* answered 401 authentication_error and opens no outbound connection; a
\* request that reaches forwarding has opened exactly one
C11_NoTokenIs401 ==
    /\ (hd.pc \in {"done", "forwarding"} /\ CredentialMatches /\ TokenAbsent) =>
          /\ hd.pc = "done"
          /\ hd.res.status = 401
          /\ hd.res.type = "authentication_error"
          /\ hd.conn = 0
    /\ hd.pc = "forwarding" => hd.conn = 1
    /\ hd.pc # "forwarding" => hd.conn = 0

\* a request whose refresh was refused has been answered 401
C11_Witness ==
    /\ hd.pc = "done"
    /\ hd.res = NotAuthenticatedResponse
    /\ gv[HandlerCall].result = Null
    /\ tokenFile.t = "json"

(***************************************************************************)
(* Further properties of the stream relay, under SpecRelay                 *)
(***************************************************************************)
\* the outbound connection has reported a failure: the request's error event
\* or the response's
TransportFailed == rl.how \in {"request error", "error"}

\* C12: whenever the outbound connection reports a transport failure, at any
\* point of the request, the caller's response has status 502 (and the
\* process is there to have written its error body)
C12_TransportFailureIs502 ==
    TransportFailed =>
        /\ rl.head = <<502>>
        /\ rl.ended = 1
        /\ ~crashed

\* the stop reason that belongs to the finish reason of a finish chunk
MappedStopReason(line) ==
    CASE line = FinishLine -> "end_turn"
      [] line = FinishLengthLine -> "max_tokens"
      [] OTHER -> ""

FinishChunks(lines) == SelectSeq(lines, LAMBDA l : l \in {FinishLine, FinishLengthLine})

\* C13: the message_delta event carries the stop reason mapped from the
\* finish reason of the upstream finish chunk: stop gives end_turn, length
\* gives max_tokens
C13_StopReasonMapped ==
    (ClosedByEnd /\ FinishChunks(rl.lines) # <<>>) =>
        \A i \in 1..Len(rl.out) :
            rl.out[i].ev = "message_delta" =>
                rl.out[i].stop = MappedStopReason(FinishChunks(rl.lines)[1])


(***************************************************************************)
(* Properties of the login flow (SpecLogin)                                *)
(***************************************************************************)

\* callback i is handled in this step
Arrives(i) == lg.cb[i].pc = "idle" /\ lg'.cb[i].pc # "idle"

\* callback i reached /auth/callback with a state other than the generated one
StateMismatch(l, i) ==
    /\ l.cb[i].pc # "idle"
    /\ l.cb[i].path = "/auth/callback"
    /\ l.cb[i].state # l.state

\* the flow is aborted by the answer to callback i: status 400, the server
\* closed, the promise rejected, no exchange made
AbortedBy(l, i, message) ==
    /\ l.cb[i].pc = "done"
    /\ l.cb[i].status = 400
    /\ l.cb[i].message = message
    /\ l.cb[i].sent = NoResult
    /\ l.cb[i].tokenData = Null
    /\ ~l.listening
    /\ l.outcome = "rejected"
    /\ l.error = message

\* the error a refused callback is answered with
RefusalError(cb) ==
    IF cb.error # "null" THEN cb.error
    ELSE IF cb.code = "null" THEN MissingCodeError
    ELSE CsrfError

\* C14 as stated: every callback whose state differs from the generated one
\* makes the flow fail with the CSRF error and abort, whatever else it
\* carries; no exchange is made and nothing is persisted for it
C14_MismatchIsCsrfError ==
    [][\A i \in Callbacks :
          Arrives(i) /\ StateMismatch(lg', i)
             => AbortedBy(lg', i, CsrfError) /\ tokenFile' = tokenFile]_vars

\* C14 amended: every callback whose state differs from the generated one
\* aborts the flow with no exchange and nothing persisted for it; the error
\* is the provider's error when the callback carries an error parameter, the
\* missing-code error when it carries neither error nor code, and the CSRF
\* error only when it carries a code and no error parameter
C14_MismatchAborts ==
    [][\A i \in Callbacks :
          /\ Arrives(i) /\ StateMismatch(lg', i)
                => AbortedBy(lg', i, RefusalError(lg'.cb[i])) /\ tokenFile' = tokenFile
          /\ StateMismatch(lg', i)
                => lg'.cb[i].pc = "done" /\ lg'.cb[i].tokenData = Null]_vars

\* a callback with a code, no error parameter and a foreign state was refused
\* with the CSRF error
C14_Witness ==
    \E i \in Callbacks :
       /\ StateMismatch(lg, i)
       /\ lg.cb[i].code = "code"
       /\ lg.cb[i].error = "null"
       /\ AbortedBy(lg, i, CsrfError)

\* an exchange request was made for callback i
Exchanging(i) == lg.cb[i].sent # NoResult

\* C15: an exchange is issued only for a callback that carries a code and
\* the generated state, with that code and the verifier whose challenge is
\* in the authorization URL; the listener accepts callbacks only once the
\* PKCE pair exists
C15_ExchangeOnlyForValidCallback ==
    /\ \A i \in Callbacks :
          Exchanging(i) =>
             /\ lg.cb[i].path = "/auth/callback"
             /\ lg.cb[i].code \notin {"null", ""}
             /\ lg.cb[i].error = "null"
             /\ lg.cb[i].state = lg.state
             /\ lg.cb[i].sent.code = lg.cb[i].code
             /\ lg.url # Null
             /\ Challenge(lg.cb[i].sent.code_verifier) = lg.url.code_challenge
    /\ lg.listening => lg.pkce # Null
    /\ (\E i \in Callbacks : lg.cb[i].pc # "idle") => lg.pkce # Null

\* an exchange is in flight
C15_Witness == \E i \in Callbacks : Exchanging(i) /\ lg.cb[i].pc = "exchange"

\* callback i reached the callback path
OnCallbackPath(i) == lg.cb[i].pc # "idle" /\ lg.cb[i].path = "/auth/callback"

\* the promise of performOAuthLogin is settled
Ended == lg.outcome \in {"resolved", "rejected"}

\* the timer has run with no callback received: the flow has failed with the
\* timeout error and the listener is closed
TimedOut ==
    lg.timerFired /\ (\A i \in Callbacks : ~OnCallbackPath(i))
       => lg.outcome = "rejected" /\ lg.error = TimeoutError /\ ~lg.listening

\* C16: with no callback within five minutes the flow fails with the timeout
\* error and the listener is released, no callback is accepted afterwards,
\* and every flow whose listener was bound eventually ends as Authenticated
\* or Failed
C16_TimeoutEndsFlow ==
    /\ []TimedOut
    /\ [][lg.timerFired => \A i \in Callbacks : ~Arrives(i)]_vars
    /\ <>(Ended \/ (crashed /\ lg.pc = "authorizing"))

\* the promise of performOAuthLogin is resolved in this step
Succeeds == lg.outcome = "pending" /\ lg'.outcome = "resolved"

\* all three fields of a credential hold a value
Populated(tokenData) ==
    tokenData # Null /\ \A k \in TokenKeys : Get(tokenData, k) \notin {Undefined, Null}

\* C17: when Authorize succeeds the exchanged credential has been persisted,
\* and the credential returned equals the persisted one, access token,
\* refresh token and expires_at all populated
C17_SucceedsAfterPersist ==
    [][Succeeds =>
          /\ Populated(lg'.result)
          /\ Populated(loadTokens(tokenFile'))
          /\ \A k \in TokenKeys : Get(loadTokens(tokenFile'), k) = lg'.result[k]]_vars

(***************************************************************************)
(* Properties of the credential file, under SpecCred                       *)
(***************************************************************************)
\* C18: in every reachable state the persisted credential is absent or has
\* access_token, refresh_token and expires_at all populated, also after a
\* refresh whose answer omits the refresh token or the expiry
C18_CredentialAbsentOrPopulated ==
    loadTokens(tokenFile) = Null \/ Populated(loadTokens(tokenFile))

\* a call has opened the file for writing and not yet written it
SaveUnderWay == \E c \in Calls : gv[c].pc = "write" /\ ~gv[c].orphan

\* C19: a Load that runs while a Save is under way observes a complete
\* credential, the previous or the new one, never an absent or partial one
C19_SaveIsAtomic ==
    [][\A c \in Calls :
          Loads(c) /\ SaveUnderWay /\ tokenFile # NoFile
             => loadTokens(tokenFile) # Null]_vars

\* call c finishes writing the file it opened, still under its name
Saves(c) == gv[c].pc = "write" /\ gv'[c].pc = "saved" /\ ~gv[c].orphan

\* two calls have each sent a refresh request with the same stored refresh
\* token, and neither has saved
DoubleRefresh ==
    \E c, d \in Calls :
       /\ c # d
       /\ gv[c].pc = "refresh" /\ gv[d].pc = "refresh"
       /\ gv[c].sent = gv[d].sent
       /\ gv[c].sent = Get(loadTokens(tokenFile), "refresh_token")

\* C20: there is no single-flight guard; two calls may each refresh with the
\* same stored refresh token, each save overwrites the file unconditionally,
\* and after a save the file holds the credential of that save, so that the
\* last save decides
C20_LastSaveWins ==
    [][\A c \in Calls : Saves(c) => tokenFile' = Stringify(gv[c].newTokens)]_vars

(***************************************************************************)
(* Further properties of the streaming relay, under SpecRelay              *)
(***************************************************************************)
\* the upstream connection reports an error in this step, the response
\* under way
ErrorWhileStreaming == rl.phase = "streaming" /\ rl'.how \in {"error", "request error"}

\* C21: once the upstream connection reports an error on the streaming path
\* the caller's response is ended, the events written before stay as
\* written, and no event, the closing sequence included, is written after
C21_ErrorEndsResponse ==
    [][/\ ErrorWhileStreaming =>
             /\ rl'.out = rl.out
             /\ rl'.ended = 1
             /\ ~crashed'
       /\ TransportFailed => rl'.out = rl.out /\ rl'.ended = rl.ended]_vars

\* the delta events of the upstream lines, each line decoded whole, in the
\* order of the lines
ExpectedDeltas(lines) ==
    LinesResult([i \in 1..Len(lines) |-> Utf8Decode(lines[i])]).events

IsPrefix(s, t) == Len(s) <= Len(t) /\ s = SubSeq(t, 1, Len(s))

\* C23: the content_block_delta events are written in the arrival order of
\* the upstream data lines that produced them, each with exactly the text of
\* its line's first-choice delta: none reordered, duplicated or merged,
\* however the lines are cut into reads
C23_DeltasInArrivalOrder ==
    /\ IsPrefix(DeltaEvents(rl.out), ExpectedDeltas(rl.lines))
    /\ ClosedByEnd => DeltaEvents(rl.out) = ExpectedDeltas(rl.lines)

\* the number of complete lines among the bytes read so far
LinesRead == Cardinality({i \in 1..rl.pos : SubSeq(rl.src, i, i) = "\n"})

\* one delta event for each text chunk among the first n lines
TextDeltas(lines, n) ==
    [i \in 1..TextChunks(SubSeq(lines, 1, n)) |-> DeltaEvent("hi")]

\* C24: a complete line that lacks the data prefix, is the end-of-stream
\* sentinel, does not parse, or parses to a shape with no choice gives no
\* event and no error to the caller, and the lines after it are processed as
\* usual: the deltas written are those of the text chunks among the complete
\* lines read, and the stream is closed with the usual framing
C24_NoiseLinesDropped ==
    /\ rl.phase \in {"streaming", "closed"} /\ rl.how # "request error" =>
          /\ DeltaEvents(rl.out) = TextDeltas(rl.lines, LinesRead)
          /\ rl.head = <<200>>
          /\ ~crashed
    /\ ClosedByEnd =>
          EventNames(rl.out) = Opening \o Deltas(TextChunks(rl.lines)) \o Closing

\* a text chunk after a line that does not parse has been relayed
C24_Witness ==
    /\ ClosedByEnd
    /\ rl.lines = <<GarbageLine, TextLine>>
    /\ DeltaEvents(rl.out) = <<DeltaEvent("hi")>>

(***************************************************************************)
(* Properties of translateOpenAIStreamChunk, under SpecChunk               *)
(***************************************************************************)
\* a string that is not empty
IsText(v) == v.t = "string" /\ v.s # ""

\* the signal for a first choice with no finish reason, as C25 states it:
\* non-empty delta text gives a text delta, every other shape no signal
SignalAsStated(choice) ==
    IF IsText(choice.content)
    THEN [type |-> "content_block_delta", text |-> choice.content.s]
    ELSE NoSignal

\* the same, with a delta content that is a list of blocks giving a text
\* delta with empty text
SignalWithLists(choice) ==
    IF choice.content = ListContent THEN [type |-> "content_block_delta", text |-> ""]
    ELSE SignalAsStated(choice)

\* C25 as stated: only the first choice counts; a finish reason gives the
\* turn-complete signal with no text, also when the chunk carries delta
\* text; otherwise non-empty delta text gives a text delta with that text;
\* every other shape gives no signal
C25_FirstChoiceSignal ==
    trOut # NoResult =>
       IF trReq.choices = <<>> THEN trOut = NoSignal
       ELSE IF Truthy(trReq.choices[1].finish_reason)
       THEN trOut = [type |-> "message_stop", text |-> ""]
       ELSE trOut = SignalAsStated(trReq.choices[1])

\* C25 amended: as stated, except that a delta content that is a list of
\* blocks (and no finish reason) gives a text-delta signal with empty text,
\* not no signal
C25_FirstChoiceSignalWithLists ==
    trOut # NoResult =>
       IF trReq.choices = <<>> THEN trOut = NoSignal
       ELSE IF Truthy(trReq.choices[1].finish_reason)
       THEN trOut = [type |-> "message_stop", text |-> ""]
       ELSE trOut = SignalWithLists(trReq.choices[1])

\* a chunk whose first choice has a finish reason and delta text, and whose
\* second choice differs, has been translated to turn-complete
C25_Witness ==
    /\ trOut = [type |-> "message_stop", text |-> ""]
    /\ Len(trReq.choices) = 2
    /\ IsText(trReq.choices[1].content)
    /\ ~Truthy(trReq.choices[2].finish_reason)

(***************************************************************************)
(* Properties of the non-streaming path, under SpecResponse                *)
(***************************************************************************)
\* the upstream answer held a response with at least one choice
HasChoice == trReq.body.t = "json" /\ trReq.body.choices # <<>>

\* the text-typed blocks of a list, as text segments
TextOnly(blocks) ==
    LET sel == SelectSeq(blocks, LAMBDA b : b.type = "text")
    IN  [i \in 1..Len(sel) |->
            [type |-> "text",
             text |-> IF sel[i].text.t = "string" THEN sel[i].text.s ELSE ""]]

\* C26: the translation of a response uses its first choice only: string
\* content becomes exactly one text segment, list content keeps its
\* text-typed segments in order, the finish reason stop gives end_turn,
\* length gives max_tokens and any other none, and the usage counters are
\* renamed prompt to input and completion to output
C26_FirstChoiceTranslated ==
    (Translated /\ HasChoice) =>
       LET first == trReq.body.choices[1]
           out == trOut.body
       IN  /\ first.content.t = "string" =>
                 out.content = <<[type |-> "text", text |-> first.content.s]>>
           /\ first.content.t = "blocks" => out.content = TextOnly(first.content.b)
           /\ out.stop_reason =
                 (CASE first.finish_reason = Str("stop") -> Str("end_turn")
                    [] first.finish_reason = Str("length") -> Str("max_tokens")
                    [] OTHER -> Null)
           /\ trReq.body.usage # Undefined =>
                 /\ "usage" \in DOMAIN out
                 /\ out.usage = [input_tokens |-> trReq.body.usage.prompt_tokens,
                                  output_tokens |-> trReq.body.usage.completion_tokens]

\* a list content with a text, an image and a text block, finish reason
\* stop, a second choice and usage counters have been translated
C26_Witness ==
    /\ Translated /\ HasChoice
    /\ Len(trReq.body.choices) = 2
    /\ trReq.body.choices[1].content =
          [t |-> "blocks", b |-> <<TextBlock("a"), OtherBlock("image_url")>>]
    /\ trReq.body.choices[1].finish_reason = Str("stop")
    /\ trReq.body.usage # Undefined
    /\ trOut.body.content = <<[type |-> "text", text |-> "a"]>>

\* C27: a response with zero choices is translated to empty content and no
\* stop reason, and the caller receives the message envelope with the
\* upstream status, not a 502
C27_ZeroChoicesIsEnvelope ==
    (Translated /\ trReq.body.t = "json" /\ trReq.body.choices = <<>>) =>
       /\ trOut.status = trReq.status
       /\ "error" \notin DOMAIN trOut.body
       /\ trOut.body.type = "message"
       /\ trOut.body.role = "assistant"
       /\ trOut.body.content = <<>>
       /\ trOut.body.stop_reason = Null

\* a response with zero choices has been answered 200
C27_Witness ==
    /\ Translated
    /\ trReq.body.t = "json" /\ trReq.body.choices = <<>>
    /\ trReq.status = 200
    /\ trOut.status = 200

(***************************************************************************)
(* Further properties of translateAnthropicToOpenAI, under SpecTranslate   *)
(***************************************************************************)
\* the text of the text-typed blocks of a list, in order
RECURSIVE TextOfTextBlocks(_)
TextOfTextBlocks(blocks) ==
    IF blocks = <<>> THEN ""
    ELSE (IF Head(blocks).type = "text" /\ Head(blocks).text.t = "string"
          THEN Head(blocks).text.s ELSE "")
         \o TextOfTextBlocks(Tail(blocks))

\* the converted messages: the target messages after the system message
Converted ==
    SubSeq(trOut.messages, Len(trOut.messages) - Len(trReq.messages) + 1,
           Len(trOut.messages))

\* C28: a source message whose content is a list of segments gives a target
\* message whose content is the concatenation, in order, of the text of the
\* text-typed segments only; a message with no text segment is forwarded
\* with empty content, so the number and order of messages are kept
C28_ListContentIsTextOnly ==
    Translated =>
       /\ Len(trOut.messages) >= Len(trReq.messages)
       /\ \A i \in 1..Len(trReq.messages) :
             trReq.messages[i].content.t = "blocks" =>
                /\ Converted[i].role = trReq.messages[i].role
                /\ Converted[i].content = TextOfTextBlocks(trReq.messages[i].content.b)

\* a message of tool blocks only, then a message with a tool result carrying
\* text and a text block: the first is forwarded empty, the second as "a"
C28_Witness ==
    /\ Translated
    /\ Len(trReq.messages) = 2
    /\ trReq.messages[1].content =
          [t |-> "blocks", b |-> <<OtherBlock("tool_use"), OtherBlock("tool_result")>>]
    /\ trReq.messages[2].content =
          [t |-> "blocks", b |-> <<[type |-> "tool_result", text |-> Str("z")], TextBlock("a")>>]
    /\ Converted[1].content = ""
    /\ Converted[2].content = "a"

(***************************************************************************)
(* Properties of the router, under SpecRouter                              *)
(***************************************************************************)
\* the rules of the classification, on the host header and the path
ChatRule == HostIncludes(trReq.host, "api.anthropic.com")
               \/ StartsWith(Pathname(trReq.url), "/v1/messages")
AuthRule ==
    \/ HostIncludes(trReq.host, "claude.ai")
    \/ HostIncludes(trReq.host, "platform.claude.com")
    \/ \E pre \in {"/oauth", "/api/auth", "/v1/keys", "/v1/account"} :
          StartsWith(Pathname(trReq.url), pre)

\* C29: every request is given exactly one classification and exactly one
\* handler, by the first rule that matches in the order chat, auth-mock,
\* liveness, passthrough (chat when both chat and auth match), and no
\* input, a malformed host or path included, makes the classification fail
C29_ClassificationTotal ==
    Translated =>
       /\ ~crashed
       /\ trOut.handlers = 1
       /\ ChatRule => trOut.class = "chat"
       /\ ~ChatRule /\ AuthRule => trOut.class = "auth"
       /\ ~ChatRule /\ ~AuthRule => trOut.class \in {"health", "passthrough"}


(***************************************************************************)
(* C22: the start and run commands listen only once getValidAccessToken    *)
(* has returned a token; without one the process exits non-zero and the    *)
(* proxy port is never bound; a failure to bind the port ends the process  *)
(* with a non-zero exit code.                                              *)
(***************************************************************************)
StartTokenReturned ==
    /\ gv[StartCall].pc = "done"
    /\ gv[StartCall].result.t = "token"

StartTokenRefused ==
    /\ gv[StartCall].pc = "done"
    /\ gv[StartCall].result.t # "token"

ExitedNonZero(s) == s.pc = "exited" /\ s.code # 0

C22_ListensOnlyWithToken ==
    /\ [](st.bound \/ st.pc \in {"certs", "binding"} => StartTokenReturned)
    /\ [](StartTokenRefused /\ st.pc # "auth" => ExitedNonZero(st) /\ ~st.bound)
    /\ [](crashed /\ ~StartTokenReturned => ~st.bound)
    /\ [][st.pc = "binding" /\ st'.pc # "binding"
            => st'.bound \/ ExitedNonZero(st')]_vars

\* the stored credential was stale and the refresh was refused: the command
\* has exited with code 1 and the port was never bound
C22_Witness ==
    /\ tokenFile # NoFile
    /\ StartTokenRefused
    /\ ExitedNonZero(st)
    /\ ~st.bound

\* the port could not be bound although the token was there
C22_BindFailureWitness ==
    /\ StartTokenReturned
    /\ ExitedNonZero(st)
    /\ ~st.bound


(***************************************************************************)
(* C30: Load returns the credential of the most recent successful persist  *)
(* when no Clear came after it, and absent otherwise; Load returns absent  *)
(* when the file is missing or unparsable; Clear on an absent credential   *)
(* succeeds and changes nothing.                                           *)
(***************************************************************************)
\* a save completes: Load now returns the credential that was saved
LoadReturnsPersisted ==
    \A c \in Calls :
        Saves(c) => loadTokens(tokenFile') = loadTokens(Stringify(gv[c].newTokens))

\* what Load returns changes only when a save completes or Clear runs
LoadChangesOnlyOnPersistOrClear ==
    loadTokens(tokenFile') # loadTokens(tokenFile)
        => \/ \E c \in Calls : Saves(c)
           \/ tokenFile' = NoFile

\* a missing or unparsable file loads as absent
C30_AbsentWhenMissingOrUnparsable ==
    tokenFile.t # "json" => loadTokens(tokenFile) = Null

\* Clear of an absent credential leaves every variable as it was
C30_ClearOfAbsentChangesNothing ==
    [][tokenFile = NoFile /\ tokenFile' = NoFile => gv' = gv \/ ~Clear]_vars

C30_LoadReturnsLastPersist ==
    /\ [][LoadReturnsPersisted /\ LoadChangesOnlyOnPersistOrClear]_vars
    /\ [](C30_AbsentWhenMissingOrUnparsable)

C30_PersistedPart == [][LoadReturnsPersisted]_vars

C30_ChangesPart == [][LoadChangesOnlyOnPersistOrClear]_vars


(***************************************************************************)
(* Properties of the non-streaming path, under SpecBuffered                *)
(***************************************************************************)
\* nothing has been written to the caller
NothingWritten == rl.head = <<>> /\ rl.out = <<>> /\ rl.ended = 0

\* the end listener has answered
AnsweredAtEnd == rl.phase = "closed" /\ rl.how = "end"

\* the upstream answered 200 with a body that parses to a response
UpstreamSuccess == trReq.status = 200 /\ trReq.body.t = "json"

EnvelopeKeys == {"id", "type", "role", "content", "model", "stop_reason"}

\* nothing is written while the body is being read; at the end the body is
\* parsed once, whole, and one response is written and ended
BufferedThenAnsweredOnce ==
    /\ rl.phase \in {"requesting", "receiving", "aborted"} => NothingWritten
    /\ AnsweredAtEnd =>
          /\ rl.buffer = rl.src
          /\ Len(rl.frames) = 1
          /\ Len(rl.head) = 1 /\ Len(rl.out) = 1 /\ rl.ended = 1

\* C31 as stated: on the non-streaming path nothing is written before the
\* upstream body is complete, the body is parsed once, exactly one response
\* is written, and on success it has status 200 and the envelope id, type
\* message, role assistant, content, model, stop_reason, usage
C31_OneEnvelopeAfterBody ==
    /\ BufferedThenAnsweredOnce
    /\ (AnsweredAtEnd /\ UpstreamSuccess) =>
          /\ rl.head = <<200>>
          /\ DOMAIN rl.out[1] = EnvelopeKeys \cup {"usage"}
          /\ rl.out[1].type = "message" /\ rl.out[1].role = "assistant"

\* C31 amended: as above, the envelope carrying usage exactly when the
\* upstream response has usage counters and at least one choice
C31_OneEnvelopeUsageOptional ==
    /\ BufferedThenAnsweredOnce
    /\ (AnsweredAtEnd /\ UpstreamSuccess) =>
          /\ rl.head = <<200>>
          /\ DOMAIN rl.out[1] =
                EnvelopeKeys \cup (IF trReq.body.usage # Undefined
                                      /\ trReq.body.choices # <<>>
                                   THEN {"usage"} ELSE {})
          /\ rl.out[1].type = "message" /\ rl.out[1].role = "assistant"
          /\ rl.out[1].id = trReq.body.id
          /\ rl.out[1].model = "gpt-5.2-codex"

\* a response with a choice and usage counters, read to its end, has been
\* answered 200 with the full envelope
C31_Witness ==
    /\ AnsweredAtEnd /\ UpstreamSuccess
    /\ trReq.body.choices # <<>> /\ trReq.body.usage # Undefined
    /\ rl.pos = 3
    /\ rl.head = <<200>>
    /\ "usage" \in DOMAIN rl.out[1]


C32_BufferedWitness ==
    /\ rl.how = "request error"
    /\ rl.buffer # ""
    /\ rl.head = <<502>>
    /\ rl.ended = 1


(***************************************************************************)
(* Termination of forwardToCodex, under SpecForwardFair                    *)
(***************************************************************************)
\* the upstream has ended its response, reported a response error or
\* reported a request error
UpstreamFinished == rl.how \in {"end", "error", "response error", "request error"}

\* the caller's response is ended and the promise of forwardToCodex resolved
ForwardCompleted == rl.phase = "closed" /\ rl.ended = 1

\* C33: every request that reaches forwarding eventually has its caller
\* response ended and its handler completed, on both paths, once the upstream
\* has ended its response or reported a response or request error
C33_ForwardingTerminates == UpstreamFinished ~> ForwardCompleted

\* the same for the events end, and request error before the response
C33_TerminatesOnEnd ==
    (rl.how = "end" \/ (rl.how = "request error" /\ ~crashed)) ~> ForwardCompleted

\* every forwarding sees the upstream finish
C33_UpstreamFinishes == <>UpstreamFinished

\* the same for an aborted response on the non-streaming path alone
C33_TerminatesAfterAbort == (rl.phase = "aborted") ~> ForwardCompleted


(***************************************************************************)
(* Further properties of performOAuthLogin, under SpecLogin                *)
(***************************************************************************)
\* the promise of performOAuthLogin is rejected
Failed == lg.outcome = "rejected"

\* C34: a flow that ends in failure persists no credential: the credential
\* file (absent when the flow starts) is as it was, also when the timeout
\* fires or a second callback arrives while an exchange is in flight
C34_FailedFlowPersistsNothing ==
    /\ [](Failed => tokenFile = NoFile)
    /\ [][Failed => tokenFile' = tokenFile]_vars

\* the same for the flows in which no exchange was in flight when the flow
\* failed
C34_FailedWithoutExchangeInFlight ==
    [][(lg.outcome = "pending" /\ Failed'
            /\ \A i \in Callbacks : lg'.cb[i].pc \notin {"exchange", "save", "write", "saved"})
          => tokenFile' = NoFile]_vars

\* the file is as it was at the moment the flow fails
C34_UntouchedWhenFailing ==
    [][lg.outcome = "pending" /\ Failed' => tokenFile' = NoFile]_vars


(***************************************************************************)
(* The last line of a stream that does not end with a newline, under       *)
(* SpecTail                                                                *)
(***************************************************************************)
\* the lines but the last
AllButLast(lines) == SubSeq(lines, 1, Len(lines) - 1)

\* C35: at the end of the upstream stream the text left in the line buffer,
\* a last segment with no newline after it, is never parsed: it gives no
\* frame and no delta, and the closing sequence is written all the same
C35_TailNeverParsed ==
    /\ Len(rl.frames) <= Len(rl.lines) - 1
    /\ IsPrefix(DeltaEvents(rl.out), ExpectedDeltas(AllButLast(rl.lines)))
    /\ ClosedByEnd =>
          /\ rl.buffer = rl.lines[Len(rl.lines)]
          /\ rl.frames = LinesResult(AllButLast(rl.lines)).frames
          /\ DeltaEvents(rl.out) = ExpectedDeltas(AllButLast(rl.lines))
          /\ FramingComplete(rl.out)

\* two text lines, the second without its newline: one delta was written,
\* the second line is still in the buffer, and the stream is closed
C35_Witness ==
    /\ ClosedByEnd
    /\ rl.lines = <<TextLine, TextLine>>
    /\ rl.buffer = TextLine
    /\ DeltaEvents(rl.out) = <<DeltaEvent("hi")>>
    /\ FramingComplete(rl.out)


(***************************************************************************)
(* Further properties of getValidAccessToken, under SpecCred               *)
(***************************************************************************)
\* call c returns absent in this step
ReturnsAbsent(c) ==
    gv[c].pc # "done" /\ gv'[c].pc = "done" /\ gv'[c].result \in {Null, Undefined}

\* a credential is persisted at time t and is outside the refresh margin
FreshPersisted(file, t) ==
    loadTokens(file) # Null /\ ~NeedsRefresh(loadTokens(file), t)

\* C36: getValidAccessToken returns absent only when, at the moment it
\* returns, the persisted credential is absent or inside the refresh margin,
\* also when two calls overlap on an expiring credential and the upstream
\* honours each refresh token once
C36_AbsentOnlyWithoutFreshCredential ==
    [][\A c \in Calls : ReturnsAbsent(c) => ~FreshPersisted(tokenFile', now')]_vars

\* the same for a call that no other call overlaps
C36_AbsentAlone ==
    [][\A c \in Calls :
          (ReturnsAbsent(c) /\ \A d \in Calls \ {c} : gv[d].pc = "idle")
             => ~FreshPersisted(tokenFile', now')]_vars


(***************************************************************************)
(* Chunks after the finish chunk, under SpecAfterFinish                    *)
(***************************************************************************)
\* the lines before the first finish chunk
BeforeFinish(lines) ==
    LET fs == {i \in 1..Len(lines) : lines[i] \in {FinishLine, FinishLengthLine}}
    IN  IF fs = {} THEN lines
        ELSE SubSeq(lines, 1, (CHOOSE i \in fs : \A j \in fs : i <= j) - 1)

\* the closing events written so far
ClosingWritten(out) ==
    SelectSeq(out, LAMBDA e : e.ev \in {"content_block_stop", "message_delta", "message_stop"})

\* the closing sequence is written once, by the end of the stream and by
\* nothing else
ClosingOnce ==
    ClosingWritten(rl.out) = (IF ClosedByEnd THEN ClosingEvents ELSE <<>>)

\* C37: no content_block_delta is written after a chunk carrying a finish
\* reason has been processed (the deltas written are those of the lines
\* before the first finish chunk), and the closing sequence that follows is
\* written exactly once
C37_FinishEndsDeltas ==
    /\ IsPrefix(DeltaEvents(rl.out), ExpectedDeltas(BeforeFinish(rl.lines)))
    /\ ClosingOnce

\* the closing sequence alone
C37_ClosingOnce == ClosingOnce

\* the deltas of the streams whose finish chunk is followed by no text
C37_DeltasWhenFinishIsLast ==
    ExpectedDeltas(BeforeFinish(rl.lines)) = ExpectedDeltas(rl.lines)
        => IsPrefix(DeltaEvents(rl.out), ExpectedDeltas(BeforeFinish(rl.lines)))

====
